---- MODULE Spec2Model ----
(***************************************************************************)
(* A model of the AwWasm runtime core (crates/awwasm-runtime): the Store,  *)
(* the embedder import set and the instantiation engine store_init.        *)
(*                                                                         *)
(* Representation.  A Vec is a sequence; a Store address a is the 0-based  *)
(* index of element a+1.  Option<T> is a sequence of length 0 (None) or 1  *)
(* (Some).  A byte string (&[u8]) is a sequence of numbers 0..255.  The    *)
(* byte buffer of a linear memory is the pair of its length and the finite *)
(* map of its nonzero bytes, so that whole pages of 65,536 bytes are kept  *)
(* at their real size.  A byte count or byte offset is a pair [hi, lo]     *)
(* standing for hi * 65,536 + lo with lo < 65,536 (the page it lies in and *)
(* the offset in that page), so that the whole u32 and usize ranges are    *)
(* there; a u32 is such a pair with hi < 65,536.                           *)
(***************************************************************************)
EXTENDS Integers, Sequences, FiniteSets, TLC

VARIABLES
    funcs,      \* AwwasmStore.funcs
    tables,     \* AwwasmStore.tables
    mems,       \* AwwasmStore.mems
    globals,    \* AwwasmStore.globals
    elems,      \* AwwasmStore.elems
    datas,      \* AwwasmStore.datas
    modules,    \* AwwasmStore.modules
    entries,    \* AwwasmImports.entries, the embedder's import set
    module,     \* the parsed AwwasmModule the embedder holds
    last        \* the most recent call and what it returned

vars == <<funcs, tables, mems, globals, elems, datas, modules, entries, module, last>>

storeVars == <<funcs, tables, mems, globals, elems, datas, modules>>

-----------------------------------------------------------------------------
(* Bounds of the model *)

\* largest identifying payload of an import value in a set explored on its
\* own (add_* / take); the set holds MaxStamp + 1 entries at most
MaxStamp == 2
\* total number of section entries of a parsed module
MaxModuleSize == 3
\* largest number of instances of one kind in the Store
MaxStore == 3
\* the Store takes a direct alloc_K while it holds fewer instances than this
MaxDirect == 3

\* the entries of a module of memories and data segments
MaxMemModuleSize == 3
\* the exports of a module instantiated for its exports
MaxExports == 2
\* the grow calls made on a memory
MaxGrows == 3
\* the writing calls (write, fill, copy_within, write_T) made on a memory
MaxWrites == 1
\* the slots a table is grown to
MaxSlots == 3

-----------------------------------------------------------------------------
(* Program constants *)

PAGE_SIZE == 65536

-----------------------------------------------------------------------------
(* Byte counts and offsets: hi * PAGE_SIZE + lo *)

Wide(hi, lo) == [hi |-> hi + (lo \div PAGE_SIZE), lo |-> lo % PAGE_SIZE]

\* a + b
WAdd(a, b) == Wide(a.hi + b.hi, a.lo + b.lo)

\* a <= b
WLe(a, b) == a.hi < b.hi \/ (a.hi = b.hi /\ a.lo <= b.lo)

\* a < b
WLt(a, b) == a.hi < b.hi \/ (a.hi = b.hi /\ a.lo < b.lo)

\* `as u32`: the low 32 bits
AsU32(a) == [hi |-> a.hi % PAGE_SIZE, lo |-> a.lo]

-----------------------------------------------------------------------------
(* Option and small helpers *)

None == <<>>

Some(v) == <<v>>

IsSome(o) == Len(o) = 1

Unwrap(o) == o[1]

Range(s) == {s[i] : i \in 1..Len(s)}

\* Vec::get(i) for a 0-based index
VecGet(v, i) == IF i < Len(v) THEN Some(v[i + 1]) ELSE None

-----------------------------------------------------------------------------
(* Names: byte strings *)

NameEnv == <<101, 110, 118>>

NameSys == <<115, 121, 115>>

NameMemory == <<109, 101, 109>>

NameF == <<102>>

NameSelf == <<115, 101, 108, 102>>

NameInvalid == <<60, 105, 110, 118, 97, 108, 105, 100, 62>>

\* core::str::from_utf8(bytes).unwrap_or("<invalid>"): the names of the model
\* are ASCII, for which the string has the bytes of the name
Utf8OrInvalid(bytes) ==
    IF \A i \in 1..Len(bytes) : bytes[i] < 128 THEN bytes ELSE NameInvalid

-----------------------------------------------------------------------------
(* Instances *)

\* AwwasmFuncInst::wasm
WasmFunc(type_idx, owner, code_bytes) ==
    [tag |-> "Wasm", type_idx |-> type_idx, module |-> owner,
     code |-> [tag |-> "Unparsed", bytes |-> code_bytes]]

\* AwwasmFuncInst::host
HostFunc(type_idx, host_func_id) ==
    [tag |-> "Host", type_idx |-> type_idx, host_func_id |-> host_func_id]

\* AwwasmMemoryType::new
MemoryType(min, max) == [min |-> min, max |-> max]

\* vec![0u8; size]
ZeroBuffer(size) == [len |-> size, nz |-> [o \in {} |-> 0]]

\* (pages as usize) * PAGE_SIZE
PagesToBytes(pages) == Wide(pages, 0)

\* a memory of one page whatever the type asks for
MemNewOnePage(type_) ==
    [type_ |-> type_, data |-> ZeroBuffer(PagesToBytes(1))]

\* AwwasmMemInst::new
MemNew(type_) ==
    [type_ |-> type_, data |-> ZeroBuffer(PagesToBytes(type_.min))]

\* one byte of a buffer
ByteAt(buf, off) == IF off \in DOMAIN buf.nz THEN buf.nz[off] ELSE 0

\* buf[offset..offset + bytes.len()].copy_from_slice(bytes)
CopyFromSlice(buf, offset, bytes) ==
    LET at(i)   == WAdd(offset, Wide(0, i - 1))
        written == {at(i) : i \in 1..Len(bytes)}
        new(o)  == IF o \in written
                   THEN bytes[CHOOSE i \in 1..Len(bytes) : at(i) = o]
                   ELSE ByteAt(buf, o)
        dom     == {o \in (DOMAIN buf.nz) \cup written : new(o) # 0}
    IN  [len |-> buf.len, nz |-> [o \in dom |-> new(o)]]

\* AwwasmGlobalInst::new
GlobalNew(type_, value) == [type_ |-> type_, value |-> value]

\* AwwasmGlobalType::mutable / immutable
GlobalType(mutable, value_type) == [mutable |-> mutable, value_type |-> value_type]

I32(v) == [tag |-> "I32", v |-> v]

\* a data instance that starts out dropped
DataNewDropped(bytes) == [data |-> bytes, dropped |-> TRUE]

\* AwwasmDataInst::new
DataNew(bytes) == [data |-> bytes, dropped |-> FALSE]

\* AwwasmElemInst::new
ElemNew(type_, elem) == [type_ |-> type_, elem |-> elem, dropped |-> FALSE]

\* AwwasmTableType::funcref
TableTypeFuncref(min, max) == [min |-> min, max |-> max, elem_type |-> "FuncRef"]

\* AwwasmTableInst::new
TableNew(type_) == [type_ |-> type_, elem |-> [i \in 1..type_.min |-> None]]

\* AwwasmModuleInst::new
ModuleInstNew ==
    [funcaddrs |-> <<>>, tableaddrs |-> <<>>, memaddrs |-> <<>>,
     globaladdrs |-> <<>>, elemaddrs |-> <<>>, dataaddrs |-> <<>>,
     exports |-> <<>>, start |-> None]

\* AwwasmExportInst::new
ExportInst(name, addr) == [name |-> name, addr |-> addr]

\* AwwasmExternAddr
ExternAddr(kind, addr) == [kind |-> kind, addr |-> addr]

-----------------------------------------------------------------------------
(* The embedder import set (imports.rs) *)

\* AwwasmImportEntry
ImportEntry(mod_name, field_name, variant, inst) ==
    [module |-> mod_name, name |-> field_name,
     value |-> [variant |-> variant, inst |-> inst]]

\* a closure that compares the field name alone
KeyMatchesNameOnly(e, mod_name, field_name) ==
    e.name = field_name

\* the closure of find / take: e.module == module && e.name == name
KeyMatches(e, mod_name, field_name) ==
    e.module = mod_name /\ e.name = field_name

\* the index of the last match instead of the first
PositionLast(es, mod_name, field_name) ==
    LET hits == {i \in 1..Len(es) : KeyMatches(es[i], mod_name, field_name)}
    IN  IF hits = {} THEN 0 ELSE CHOOSE i \in hits : \A j \in hits : i >= j

\* Iterator::position: the 1-based index of the first match, 0 when none
Position(es, mod_name, field_name) ==
    LET hits == {i \in 1..Len(es) : KeyMatches(es[i], mod_name, field_name)}
    IN  IF hits = {} THEN 0 ELSE CHOOSE i \in hits : \A j \in hits : i <= j

\* Vec::swap_remove: the last element takes the place of the removed one
SwapRemove(es, pos) ==
    LET n == Len(es)
    IN  IF pos = n THEN SubSeq(es, 1, n - 1)
        ELSE [SubSeq(es, 1, n - 1) EXCEPT ![pos] = es[n]]

\* AwwasmImports::take
Take(es, mod_name, field_name) ==
    LET pos == Position(es, mod_name, field_name)
    IN  IF pos = 0 THEN [entry |-> None, rest |-> es]
        ELSE [entry |-> Some(es[pos]), rest |-> SwapRemove(es, pos)]

\* AwwasmImports::find
Find(es, mod_name, field_name) ==
    LET pos == Position(es, mod_name, field_name)
    IN  IF pos = 0 THEN None ELSE Some(es[pos])

-----------------------------------------------------------------------------
(* The Store as a value (store.rs), for the steps of store_init *)

StoreRec == [funcs |-> funcs, tables |-> tables, mems |-> mems,
             globals |-> globals, elems |-> elems, datas |-> datas,
             modules |-> modules]

\* a 1-based address: the length after the push
AllocFuncOneBased(s, inst) ==
    [store |-> [s EXCEPT !.funcs = Append(s.funcs, inst)], addr |-> Len(s.funcs) + 1]

\* alloc_func: the address is the length before the push
AllocFunc(s, inst) ==
    [store |-> [s EXCEPT !.funcs = Append(s.funcs, inst)], addr |-> Len(s.funcs)]

\* alloc_table
AllocTable(s, inst) ==
    [store |-> [s EXCEPT !.tables = Append(s.tables, inst)], addr |-> Len(s.tables)]

\* the new memory put in front of the others
AllocMemFront(s, inst) ==
    [store |-> [s EXCEPT !.mems = <<inst>> \o s.mems], addr |-> Len(s.mems)]

\* alloc_mem
AllocMem(s, inst) ==
    [store |-> [s EXCEPT !.mems = Append(s.mems, inst)], addr |-> Len(s.mems)]

\* alloc_global
AllocGlobal(s, inst) ==
    [store |-> [s EXCEPT !.globals = Append(s.globals, inst)], addr |-> Len(s.globals)]

\* alloc_elem
AllocElem(s, inst) ==
    [store |-> [s EXCEPT !.elems = Append(s.elems, inst)], addr |-> Len(s.elems)]

\* alloc_data
AllocData(s, inst) ==
    [store |-> [s EXCEPT !.datas = Append(s.datas, inst)], addr |-> Len(s.datas)]

\* register_module
RegisterModule(s, inst) ==
    [store |-> [s EXCEPT !.modules = Append(s.modules, inst)], addr |-> Len(s.modules)]

-----------------------------------------------------------------------------
(* Instantiation errors (error.rs) *)

MissingImport(mod_name, field_name) ==
    [kind |-> "MissingImport", module |-> mod_name, name |-> field_name]

ImportTypeMismatch(mod_name, field_name, expected) ==
    [kind |-> "ImportTypeMismatch", module |-> mod_name, name |-> field_name,
     expected |-> expected, got |-> "other"]

UnsupportedType(description) ==
    [kind |-> "UnsupportedType", description |-> description]

FuncCodeMismatch(func_count, code_count) ==
    [kind |-> "FuncCodeMismatch", func_count |-> func_count, code_count |-> code_count]

InvalidConstExpr(description) ==
    [kind |-> "InvalidConstExpr", description |-> description]

DataSegmentOutOfBounds(segment_idx, offset, size, memory_size) ==
    [kind |-> "DataSegmentOutOfBounds", segment_idx |-> segment_idx,
     offset |-> offset, size |-> size, memory_size |-> memory_size]

-----------------------------------------------------------------------------
(* store_init, step by step.  The state threaded through the steps is      *)
(* [s: the Store, mi: module_inst, es: the import set, err: Option<error>] *)

\* a match that lets a function entry stand for any import kind
VariantOfAny(kind) == "Func"

\* the entry value variant each import kind asks for, and its name in errors
VariantOf(kind) ==
    CASE kind = "Function" -> "Func"
      [] kind = "Memory"   -> "Memory"
      [] kind = "Global"   -> "Global"
      [] OTHER             -> "none"

ExpectedOf(kind) ==
    CASE kind = "Function" -> "function"
      [] kind = "Memory"   -> "memory"
      [] OTHER             -> "global"

\* the instance moved into the Store and its address appended to the array
\* of its kind
AllocImported(st, kind, inst) ==
    CASE kind = "Function" ->
           LET a == AllocFunc(st.s, inst)
           IN  [st EXCEPT !.s = a.store,
                          !.mi.funcaddrs = Append(st.mi.funcaddrs, a.addr)]
      [] kind = "Memory" ->
           LET a == AllocMem(st.s, inst)
           IN  [st EXCEPT !.s = a.store,
                          !.mi.memaddrs = Append(st.mi.memaddrs, a.addr)]
      [] OTHER ->
           LET a == AllocGlobal(st.s, inst)
           IN  [st EXCEPT !.s = a.store,
                          !.mi.globaladdrs = Append(st.mi.globaladdrs, a.addr)]

\* an import loop that looks every import up before it looks at its kind
ResolveImportLookupFirst(st, item) ==
    LET t == Take(st.es, item.module, item.name)
    IN  IF ~IsSome(t.entry)
        THEN [st EXCEPT !.err = Some(MissingImport(Utf8OrInvalid(item.module),
                                                   Utf8OrInvalid(item.name)))]
        ELSE IF item.kind = "Table"
        THEN [st EXCEPT !.es = t.rest,
                        !.err = Some(UnsupportedType(<<"table imports not yet supported">>))]
        ELSE IF Unwrap(t.entry).value.variant = VariantOf(item.kind)
        THEN AllocImported([st EXCEPT !.es = t.rest], item.kind,
                           Unwrap(t.entry).value.inst)
        ELSE [st EXCEPT !.es = t.rest,
                        !.err = Some(ImportTypeMismatch(Utf8OrInvalid(item.module),
                                                        Utf8OrInvalid(item.name),
                                                        ExpectedOf(item.kind)))]

\* one iteration of the import loop
ResolveImport(st, item) ==
    IF item.kind = "Table"
    THEN [st EXCEPT !.err = Some(UnsupportedType(<<"table imports not yet supported">>))]
    ELSE LET t == Take(st.es, item.module, item.name)
         IN  IF ~IsSome(t.entry)
             THEN [st EXCEPT !.err = Some(MissingImport(Utf8OrInvalid(item.module),
                                                        Utf8OrInvalid(item.name)))]
             ELSE IF Unwrap(t.entry).value.variant = VariantOf(item.kind)
                  THEN AllocImported([st EXCEPT !.es = t.rest], item.kind,
                                     Unwrap(t.entry).value.inst)
                  ELSE [st EXCEPT !.es = t.rest,
                                  !.err = Some(ImportTypeMismatch(
                                               Utf8OrInvalid(item.module),
                                               Utf8OrInvalid(item.name),
                                               ExpectedOf(item.kind)))]

\* the import loop from item i on, stopping at the first error
RECURSIVE ResolveImports(_, _, _)
ResolveImports(st, items, i) ==
    IF i > Len(items) THEN st
    ELSE LET r == ResolveImport(st, items[i])
         IN  IF IsSome(r.err) THEN r ELSE ResolveImports(r, items, i + 1)

\* the length check made only when both sections are nonempty
FuncCodeCheckBothNonempty(func_items, code_items) ==
    IF Len(func_items) # 0 /\ Len(code_items) # 0 /\ Len(func_items) # Len(code_items)
    THEN Some(FuncCodeMismatch(Len(func_items), Len(code_items)))
    ELSE None

\* the length check on the function and code sections
FuncCodeCheck(func_items, code_items) ==
    IF Len(func_items) # 0 /\ Len(func_items) # Len(code_items)
    THEN Some(FuncCodeMismatch(Len(func_items), Len(code_items)))
    ELSE None

\* the module address of an empty Store, whatever the Store holds
PendingModuleAddrStale(s) == 0

\* the module address pre-computed for the functions of the module
PendingModuleAddr(s) == Len(s.modules)

\* a function loop that puts each address in front of funcaddrs
RECURSIVE AllocModuleFuncsFront(_, _, _, _)
AllocModuleFuncsFront(st, code_items, pending, i) ==
    IF i > Len(code_items) THEN st
    ELSE LET a == AllocFunc(st.s, WasmFunc(0, pending, code_items[i].func_body))
         IN  AllocModuleFuncsFront([st EXCEPT !.s = a.store,
                                             !.mi.funcaddrs = <<a.addr>> \o st.mi.funcaddrs],
                                   code_items, pending, i + 1)

\* one Wasm function per code entry, its type index fixed to 0
RECURSIVE AllocModuleFuncs(_, _, _, _)
AllocModuleFuncs(st, code_items, pending, i) ==
    IF i > Len(code_items) THEN st
    ELSE LET a == AllocFunc(st.s, WasmFunc(0, pending, code_items[i].func_body))
         IN  AllocModuleFuncs([st EXCEPT !.s = a.store,
                                        !.mi.funcaddrs = Append(st.mi.funcaddrs, a.addr)],
                              code_items, pending, i + 1)

\* type_convert::memory_params_to_type
MemoryParamsToType(limits) == MemoryType(limits.min, limits.max)

\* one memory instance per declared memory
RECURSIVE AllocModuleMems(_, _, _)
AllocModuleMems(st, mem_items, i) ==
    IF i > Len(mem_items) THEN st
    ELSE LET a == AllocMem(st.s, MemNew(MemoryParamsToType(mem_items[i].limits)))
         IN  AllocModuleMems([st EXCEPT !.s = a.store,
                                       !.mi.memaddrs = Append(st.mi.memaddrs, a.addr)],
                             mem_items, i + 1)

\* one data instance per data segment
RECURSIVE AllocModuleDatas(_, _, _)
AllocModuleDatas(st, data_items, i) ==
    IF i > Len(data_items) THEN st
    ELSE LET a == AllocData(st.s, DataNew(data_items[i].data_bytes))
         IN  AllocModuleDatas([st EXCEPT !.s = a.store,
                                        !.mi.dataaddrs = Append(st.mi.dataaddrs, a.addr)],
                              data_items, i + 1)

\* the address array of module_inst an export kind is looked up in
AddrsOf(mi, kind) ==
    CASE kind = "Function" -> mi.funcaddrs
      [] kind = "Memory"   -> mi.memaddrs
      [] kind = "Table"    -> mi.tableaddrs
      [] OTHER             -> mi.globaladdrs

\* every export given the Func variant
ExternKindAlwaysFunc(kind) == "Func"

\* the AwwasmExternAddr variant built for an export kind
ExternKindOf(kind) ==
    CASE kind = "Function" -> "Func"
      [] kind = "Memory"   -> "Mem"
      [] kind = "Table"    -> "Table"
      [] OTHER             -> "Global"

\* the export index taken for a Store address, without the lookup
ResolveExportUnchecked(st, item) ==
    [st EXCEPT !.mi.exports =
        Append(st.mi.exports,
               ExportInst(item.name, ExternAddr(ExternKindOf(item.kind), item.index)))]

\* one iteration of the export loop
ResolveExport(st, item) ==
    LET a == VecGet(AddrsOf(st.mi, item.kind), item.index)
    IN  IF IsSome(a)
        THEN [st EXCEPT !.mi.exports =
                 Append(st.mi.exports,
                        ExportInst(item.name, ExternAddr(ExternKindOf(item.kind), Unwrap(a))))]
        ELSE [st EXCEPT !.err = Some(MissingImport(NameSelf, Utf8OrInvalid(item.name)))]

RECURSIVE ResolveExports(_, _, _)
ResolveExports(st, items, i) ==
    IF i > Len(items) THEN st
    ELSE LET r == ResolveExport(st, items[i])
         IN  IF IsSome(r.err) THEN r ELSE ResolveExports(r, items, i + 1)

-----------------------------------------------------------------------------
(* Constant initializer expressions *)

Pow2(n) == 2 ^ n

\* v * 2^shift as a byte count, for v < 128 and shift < 35
Shifted(v, shift) ==
    IF shift < 16 THEN Wide(0, v * Pow2(shift)) ELSE Wide(v * Pow2(shift - 16), 0)

\* 2^32 - 2^k as a u32, for 0 < k <= 32
SignFill(k) ==
    IF k >= 32 THEN Wide(0, 0)
    ELSE IF k < 16 THEN Wide(PAGE_SIZE - 1, PAGE_SIZE - Pow2(k))
    ELSE Wide(PAGE_SIZE - Pow2(k - 16), 0)

\* signed LEB128 from byte i on, as the u32 with the bits of the i32: [ok, value]
RECURSIVE Sleb128(_, _, _, _)
Sleb128(bytes, i, acc, shift) ==
    IF i > Len(bytes) \/ shift > 28 THEN [ok |-> FALSE, value |-> Wide(0, 0)]
    ELSE LET b    == bytes[i]
             acc2 == WAdd(acc, Shifted(b % 128, shift))
         IN  IF b >= 128 THEN Sleb128(bytes, i + 1, acc2, shift + 7)
             ELSE IF b >= 64
             THEN [ok |-> TRUE, value |-> AsU32(WAdd(acc2, SignFill(shift + 7)))]
             ELSE [ok |-> TRUE, value |-> AsU32(acc2)]

\* the parser's eval_const_init_expr: i32.const <sleb128>, anything else an error
EvalConstInitExpr(code) ==
    IF Len(code) >= 2 /\ code[1] = 65 THEN Sleb128(code, 2, Wide(0, 0), 0)
    ELSE [ok |-> FALSE, value |-> Wide(0, 0)]

\* type_convert::eval_const_expr: the i32 reinterpreted as u32
EvalConstExpr(code) ==
    LET r == EvalConstInitExpr(code)
    IN  IF r.ok THEN [ok |-> TRUE, value |-> AsU32(r.value), err |-> None]
        ELSE [ok |-> FALSE, value |-> Wide(0, 0),
              err |-> Some(InvalidConstExpr(<<"unsupported const expr">>))]

-----------------------------------------------------------------------------
(* store_init: active data segments, and the whole call *)

\* every active segment sent to memory 0
SegmentMemidxIgnored(header) == 0

\* the memory index an active segment targets
SegmentMemidx(header) ==
    IF header.flags = 2
    THEN (IF IsSome(header.memidx) THEN Unwrap(header.memidx) ELSE 0)
    ELSE 0

\* a data loop that takes the memory index of the segment for a Store address
InitDataSegmentInStore(st, item, seg_idx) ==
    IF item.header.flags = 1 THEN st
    ELSE IF ~IsSome(item.header.offset)
    THEN [st EXCEPT !.err = Some(InvalidConstExpr(<<"data segment", seg_idx, "missing offset expression">>))]
    ELSE
    LET ev     == EvalConstExpr(Unwrap(item.header.offset).code)
        offset == ev.value
        size   == Wide(0, Len(item.data_bytes))
        maddr  == Some(SegmentMemidx(item.header))
    IN  IF ~ev.ok THEN [st EXCEPT !.err = ev.err]
        ELSE IF ~IsSome(maddr)
        THEN [st EXCEPT !.err = Some(DataSegmentOutOfBounds(seg_idx, AsU32(offset), AsU32(size), Wide(0, 0)))]
        ELSE IF ~IsSome(VecGet(st.s.mems, Unwrap(maddr)))
        THEN [st EXCEPT !.err = Some(DataSegmentOutOfBounds(seg_idx, AsU32(offset), AsU32(size), Wide(0, 0)))]
        ELSE LET a        == Unwrap(maddr) + 1
                 mem_size == st.s.mems[a].data.len
             IN  IF WLt(mem_size, WAdd(offset, size))
                 THEN [st EXCEPT !.err = Some(DataSegmentOutOfBounds(
                                              seg_idx, AsU32(offset), AsU32(size), AsU32(mem_size)))]
                 ELSE [st EXCEPT !.s.mems[a].data =
                          CopyFromSlice(st.s.mems[a].data, offset, item.data_bytes)]

\* one iteration of the data initialization loop; seg_idx is 0-based
InitDataSegment(st, item, seg_idx) ==
    IF item.header.flags = 1 THEN st
    ELSE IF ~IsSome(item.header.offset)
    THEN [st EXCEPT !.err = Some(InvalidConstExpr(<<"data segment", seg_idx, "missing offset expression">>))]
    ELSE
    LET ev     == EvalConstExpr(Unwrap(item.header.offset).code)
        offset == ev.value
        size   == Wide(0, Len(item.data_bytes))
        maddr  == VecGet(st.mi.memaddrs, SegmentMemidx(item.header))
    IN  IF ~ev.ok THEN [st EXCEPT !.err = ev.err]
        ELSE IF ~IsSome(maddr)
        THEN [st EXCEPT !.err = Some(DataSegmentOutOfBounds(seg_idx, AsU32(offset), AsU32(size), Wide(0, 0)))]
        ELSE IF ~IsSome(VecGet(st.s.mems, Unwrap(maddr)))
        THEN [st EXCEPT !.err = Some(DataSegmentOutOfBounds(seg_idx, AsU32(offset), AsU32(size), Wide(0, 0)))]
        ELSE LET a        == Unwrap(maddr) + 1
                 mem_size == st.s.mems[a].data.len
             IN  IF WLt(mem_size, WAdd(offset, size))
                 THEN [st EXCEPT !.err = Some(DataSegmentOutOfBounds(
                                              seg_idx, AsU32(offset), AsU32(size), AsU32(mem_size)))]
                 ELSE [st EXCEPT !.s.mems[a].data =
                          CopyFromSlice(st.s.mems[a].data, offset, item.data_bytes)]

RECURSIVE InitActiveData(_, _, _)
InitActiveData(st, items, i) ==
    IF i > Len(items) THEN st
    ELSE LET r == InitDataSegment(st, items[i], i - 1)
         IN  IF IsSome(r.err) THEN r ELSE InitActiveData(r, items, i + 1)

\* what store_init returns
Ok(addr) == [ok |-> TRUE, addr |-> Some(addr), err |-> None]

Err(e) == [ok |-> FALSE, addr |-> None, err |-> Some(e)]

\* an early return that registers the half-built module instance first
AbortRegistered(st) ==
    [s |-> RegisterModule(st.s, st.mi).store, es |-> st.es, ret |-> Err(Unwrap(st.err))]

\* an early return: the Store and the import set stay as the steps left them
Abort(st) == [s |-> st.s, es |-> st.es, ret |-> Err(Unwrap(st.err))]

\* the steps after the imports have resolved
InitAfterImports(st1, m) ==
    LET fc == FuncCodeCheck(m.funcs, m.code)
    IN  IF IsSome(fc) THEN Abort([st1 EXCEPT !.err = fc])
        ELSE
        LET pending == PendingModuleAddr(st1.s)
            st2 == AllocModuleFuncs(st1, m.code, pending, 1)
            st3 == AllocModuleMems(st2, m.memories, 1)
            st4 == AllocModuleDatas(st3, m.data, 1)
            st5 == ResolveExports(st4, m.exports, 1)
        IN  IF IsSome(st5.err) THEN Abort(st5)
            ELSE LET st6 == InitActiveData(st5, m.data, 1)
                 IN  IF IsSome(st6.err) THEN Abort(st6)
                     ELSE LET r == RegisterModule(st6.s, st6.mi)
                          IN  [s |-> r.store, es |-> st6.es, ret |-> Ok(r.addr)]

\* AwwasmStore::store_init(module, imports)
StoreInit(s, es, m) ==
    LET st0 == [s |-> s, mi |-> ModuleInstNew, es |-> es, err |-> None]
        st1 == ResolveImports(st0, m.imports, 1)
    IN  IF IsSome(st1.err) THEN Abort(st1) ELSE InitAfterImports(st1, m)

-----------------------------------------------------------------------------
(* The inputs of the embedder *)

\* (module, field) names
Key(mod_name, field_name) == [module |-> mod_name, name |-> field_name]

KeyEnvMemory == Key(NameEnv, NameMemory)

KeyEnvF == Key(NameEnv, NameF)

KeySysMemory == Key(NameSys, NameMemory)

ImportKinds == {"Function", "Table", "Memory", "Global"}

ExportKinds == {"Function", "Table", "Memory", "Global"}

ImportItem(k, kind) == [module |-> k.module, name |-> k.name, kind |-> kind]

\* the imports of the parsed modules: every kind, under two names
ImportItems ==
    {ImportItem(KeyEnvMemory, "Memory"), ImportItem(KeyEnvMemory, "Table"),
     ImportItem(KeyEnvF, "Function"), ImportItem(KeyEnvF, "Global")}

\* the instances the embedder supplies as imports
ImportedFunc(id) == HostFunc(0, id)

ImportedMem(pages) == MemNew(MemoryType(pages, None))

ImportedGlobal(v) == GlobalNew(GlobalType(TRUE, "I32"), I32(v))

\* the entries the embedder puts in the import set handed to store_init:
\* right and wrong variants under the imported names, and a memory under
\* another module name
InitEntries ==
    {ImportEntry(NameEnv, NameMemory, "Memory", ImportedMem(1)),
     ImportEntry(NameEnv, NameMemory, "Func", ImportedFunc(0)),
     ImportEntry(NameEnv, NameF, "Func", ImportedFunc(0)),
     ImportEntry(NameEnv, NameF, "Global", ImportedGlobal(0)),
     ImportEntry(NameSys, NameMemory, "Memory", ImportedMem(1))}

\* a function body: no locals, end
FuncBody == <<0, 11>>

CodeItem == [func_body |-> FuncBody]

\* (memory 1 4)
MemoryItem == [limits |-> [min |-> 1, max |-> Some(4)]]

\* (global i32 (i32.const 7))
GlobalItem == [mutable |-> FALSE, value_type |-> "I32", init |-> [code |-> <<65, 7, 11>>]]

\* data segments: active at 16, passive, active with an explicit memory index,
\* active ending one byte past the first page, active without an offset
DataItems ==
    {[header |-> [flags |-> 0, memidx |-> None, offset |-> Some([code |-> <<65, 16, 11>>])],
      data_bytes |-> <<104, 105>>],
     [header |-> [flags |-> 1, memidx |-> None, offset |-> None],
      data_bytes |-> <<104, 105>>],
     [header |-> [flags |-> 2, memidx |-> Some(1), offset |-> Some([code |-> <<65, 0, 11>>])],
      data_bytes |-> <<33>>],
     [header |-> [flags |-> 0, memidx |-> None, offset |-> Some([code |-> <<65, 255, 255, 3, 11>>])],
      data_bytes |-> <<104, 105>>]}

ExportItem(name, kind, index) == [name |-> name, kind |-> kind, index |-> index]

ExportItems ==
    {ExportItem(NameF, "Function", 0), ExportItem(NameF, "Function", 1),
     ExportItem(NameMemory, "Memory", 0), ExportItem(NameMemory, "Global", 0),
     ExportItem(NameMemory, "Table", 0)}

\* all sequences over S of length at most n
RECURSIVE SeqsUpTo(_, _)
SeqsUpTo(S, n) ==
    IF n = 0 THEN {<<>>}
    ELSE LET shorter == SeqsUpTo(S, n - 1)
         IN  shorter \cup {Append(q, x) : q \in {r \in shorter : Len(r) = n - 1}, x \in S}

\* the number of section entries of a parsed module
ModuleSize(m) ==
    Len(m.imports) + Len(m.funcs) + Len(m.code) + Len(m.memories)
        + Len(m.globals) + Len(m.data) + Len(m.exports)

\* the parsed modules: every combination of sections, two entries a section
\* at most, with at most MaxModuleSize entries in all
Modules ==
    LET n == MaxModuleSize
        two == IF n < 2 THEN n ELSE 2
    IN  {m \in [imports  : SeqsUpTo(ImportItems, two),
                funcs    : SeqsUpTo({0}, two),
                code     : SeqsUpTo({CodeItem}, two),
                memories : SeqsUpTo({MemoryItem}, two),
                globals  : SeqsUpTo({GlobalItem}, 1),
                data     : SeqsUpTo(DataItems, 1),
                exports  : SeqsUpTo(ExportItems, 1)] : ModuleSize(m) <= n}

EmptyModule ==
    [imports |-> <<>>, funcs |-> <<>>, code |-> <<>>, memories |-> <<>>,
     globals |-> <<>>, data |-> <<>>, exports |-> <<>>]

-----------------------------------------------------------------------------
(* The calls of the embedder *)

NoCall == [op |-> "new", ret |-> Ok(0)]

SetStore(s) ==
    /\ funcs' = s.funcs
    /\ tables' = s.tables
    /\ mems' = s.mems
    /\ globals' = s.globals
    /\ elems' = s.elems
    /\ datas' = s.datas
    /\ modules' = s.modules

\* no vector of the Store longer than MaxStore
WithinStore(s) ==
    /\ Len(s.funcs) <= MaxStore
    /\ Len(s.tables) <= MaxStore
    /\ Len(s.mems) <= MaxStore
    /\ Len(s.globals) <= MaxStore
    /\ Len(s.elems) <= MaxStore
    /\ Len(s.datas) <= MaxStore
    /\ Len(s.modules) <= MaxStore

\* store.store_init(&module, &mut imports)
store_init ==
    LET r == StoreInit(StoreRec, entries, module)
    IN  /\ WithinStore(r.s)
        /\ SetStore(r.s)
        /\ entries' = r.es
        /\ last' = [op |-> "store_init", ret |-> r.ret]
        /\ UNCHANGED module

\* imports.add_func(module, name, func)
add_func(mod_name, field_name, func) ==
    /\ entries' = Append(entries, ImportEntry(mod_name, field_name, "Func", func))
    /\ last' = [op |-> "add_func", ret |-> Ok(0)]
    /\ UNCHANGED <<storeVars, module>>

\* imports.add_memory(module, name, mem)
add_memory(mod_name, field_name, mem) ==
    /\ entries' = Append(entries, ImportEntry(mod_name, field_name, "Memory", mem))
    /\ last' = [op |-> "add_memory", ret |-> Ok(0)]
    /\ UNCHANGED <<storeVars, module>>

\* imports.add_global(module, name, global)
add_global(mod_name, field_name, global) ==
    /\ entries' = Append(entries, ImportEntry(mod_name, field_name, "Global", global))
    /\ last' = [op |-> "add_global", ret |-> Ok(0)]
    /\ UNCHANGED <<storeVars, module>>

\* imports.take(module, name)
take(mod_name, field_name) ==
    LET t == Take(entries, mod_name, field_name)
    IN  /\ entries' = t.rest
        /\ last' = [op |-> "take", key |-> Key(mod_name, field_name), ret |-> t.entry]
        /\ UNCHANGED <<storeVars, module>>

EmptyStore ==
    /\ funcs = <<>>
    /\ tables = <<>>
    /\ mems = <<>>
    /\ globals = <<>>
    /\ elems = <<>>
    /\ datas = <<>>
    /\ modules = <<>>

\* AwwasmStore::new(), AwwasmImports::new() and a parsed module
Init ==
    /\ EmptyStore
    /\ entries = <<>>
    /\ module \in Modules
    /\ last = NoCall

\* the embedder fills the import set, an entry for an import at most and
\* under the field names the module imports, then instantiates
AddInitEntry ==
    /\ Len(entries) < Len(module.imports)
    /\ \E e \in {x \in InitEntries : \E i \in 1..Len(module.imports) :
                                        module.imports[i].name = x.name} :
          \/ e.value.variant = "Func" /\ add_func(e.module, e.name, e.value.inst)
          \/ e.value.variant = "Memory" /\ add_memory(e.module, e.name, e.value.inst)
          \/ e.value.variant = "Global" /\ add_global(e.module, e.name, e.value.inst)

Next ==
    \/ AddInitEntry
    \/ store_init

Spec == Init /\ [][Next]_vars

-----------------------------------------------------------------------------
(* Direct allocation by the embedder, mixed with instantiation *)

\* store.alloc_func(func)
alloc_func(inst) ==
    LET a == AllocFunc(StoreRec, inst)
    IN  /\ SetStore(a.store)
        /\ last' = [op |-> "alloc_func", arg |-> inst, ret |-> Ok(a.addr)]
        /\ UNCHANGED <<entries, module>>

\* store.alloc_table(table)
alloc_table(inst) ==
    LET a == AllocTable(StoreRec, inst)
    IN  /\ SetStore(a.store)
        /\ last' = [op |-> "alloc_table", arg |-> inst, ret |-> Ok(a.addr)]
        /\ UNCHANGED <<entries, module>>

\* store.alloc_mem(mem)
alloc_mem(inst) ==
    LET a == AllocMem(StoreRec, inst)
    IN  /\ SetStore(a.store)
        /\ last' = [op |-> "alloc_mem", arg |-> inst, ret |-> Ok(a.addr)]
        /\ UNCHANGED <<entries, module>>

\* store.alloc_global(global)
alloc_global(inst) ==
    LET a == AllocGlobal(StoreRec, inst)
    IN  /\ SetStore(a.store)
        /\ last' = [op |-> "alloc_global", arg |-> inst, ret |-> Ok(a.addr)]
        /\ UNCHANGED <<entries, module>>

\* store.alloc_elem(elem)
alloc_elem(inst) ==
    LET a == AllocElem(StoreRec, inst)
    IN  /\ SetStore(a.store)
        /\ last' = [op |-> "alloc_elem", arg |-> inst, ret |-> Ok(a.addr)]
        /\ UNCHANGED <<entries, module>>

\* store.alloc_data(data)
alloc_data(inst) ==
    LET a == AllocData(StoreRec, inst)
    IN  /\ SetStore(a.store)
        /\ last' = [op |-> "alloc_data", arg |-> inst, ret |-> Ok(a.addr)]
        /\ UNCHANGED <<entries, module>>

\* store.register_module(module_inst)
register_module(inst) ==
    LET a == RegisterModule(StoreRec, inst)
    IN  /\ SetStore(a.store)
        /\ last' = [op |-> "register_module", arg |-> inst, ret |-> Ok(a.addr)]
        /\ UNCHANGED <<entries, module>>

\* the instances of the direct allocations (as in the tests of lib.rs)
DirectFunc == WasmFunc(0, 0, FuncBody)

DirectTable == TableNew(TableTypeFuncref(4, Some(8)))

DirectMem == MemNew(MemoryType(1, Some(2)))

DirectGlobal == GlobalNew(GlobalType(TRUE, "I32"), I32(100))

DirectElem == ElemNew("FuncRef", <<Some(0)>>)

DirectData == DataNew(<<72, 105>>)

\* the modules instantiated next to direct allocations: with or without an
\* import, and either nothing else or a function, a memory and a data segment
AllocModules ==
    {[imports |-> imp, funcs |-> body.funcs, code |-> body.code,
      memories |-> body.memories, globals |-> <<>>,
      data |-> body.data, exports |-> <<>>] :
        imp \in SeqsUpTo({ImportItem(KeyEnvMemory, "Memory"),
                          ImportItem(KeyEnvF, "Function"),
                          ImportItem(KeyEnvF, "Global")}, 1),
        body \in {[funcs |-> <<>>, code |-> <<>>, memories |-> <<>>, data |-> <<>>],
                  [funcs |-> <<0>>, code |-> <<CodeItem>>, memories |-> <<MemoryItem>>,
                   data |-> <<CHOOSE x \in DataItems :
                                x.header.flags = 0 /\ x.header.offset = Some([code |-> <<65, 16, 11>>])>>]}}

\* the number of instances in the Store
StoreTotal ==
    Len(funcs) + Len(tables) + Len(mems) + Len(globals) + Len(elems)
        + Len(datas) + Len(modules)

InitAlloc ==
    /\ EmptyStore
    /\ entries = <<>>
    /\ module \in AllocModules
    /\ last = NoCall

NextAlloc ==
    \/ StoreTotal < MaxDirect /\ alloc_func(DirectFunc)
    \/ StoreTotal < MaxDirect /\ alloc_table(DirectTable)
    \/ StoreTotal < MaxDirect /\ alloc_mem(DirectMem)
    \/ StoreTotal < MaxDirect /\ alloc_global(DirectGlobal)
    \/ StoreTotal < MaxDirect /\ alloc_elem(DirectElem)
    \/ StoreTotal < MaxDirect /\ alloc_data(DirectData)
    \/ StoreTotal < MaxDirect /\ register_module(ModuleInstNew)
    \/ AddInitEntry
    \/ store_init

SpecAlloc == InitAlloc /\ [][NextAlloc]_vars

-----------------------------------------------------------------------------
(* The import set on its own *)

\* the identifying payload of an import value
StampOf(e) ==
    CASE e.value.variant = "Func"   -> e.value.inst.host_func_id
      [] e.value.variant = "Memory" -> e.value.inst.type_.min
      [] OTHER                      -> e.value.inst.value.v

\* the embedder numbers the values it adds: the next payload is one more than
\* the largest in the set
NextStamp ==
    IF entries = <<>> THEN 0
    ELSE 1 + (CHOOSE n \in {StampOf(entries[i]) : i \in 1..Len(entries)} :
                 \A i \in 1..Len(entries) : StampOf(entries[i]) <= n)

InitImports ==
    /\ EmptyStore
    /\ entries = <<>>
    /\ module = EmptyModule
    /\ last = NoCall

NextImports ==
    \/ /\ NextStamp <= MaxStamp
       /\ \E k \in {KeyEnvMemory, KeyEnvF} :
             \/ add_func(k.module, k.name, ImportedFunc(NextStamp))
             \/ add_memory(k.module, k.name, ImportedMem(NextStamp))
             \/ add_global(k.module, k.name, ImportedGlobal(NextStamp))
    \/ \E k \in {KeyEnvMemory, KeyEnvF, KeySysMemory} : take(k.module, k.name)

SpecImports == InitImports /\ [][NextImports]_vars

-----------------------------------------------------------------------------
(* Properties *)

\* a is an initial segment of b
IsPrefix(a, b) == Len(a) <= Len(b) /\ \A i \in 1..Len(a) : b[i] = a[i]

\* addrs are the consecutive addresses from `from` on
Consecutive(addrs, from) == \A i \in 1..Len(addrs) : addrs[i] = from + i - 1

\* the number of imports of a kind
CountKind(items, kind) == Cardinality({i \in 1..Len(items) : items[i].kind = kind})

\* the step is a call of store_init
StoreInitStep == last'.op = "store_init"

StoreInitOk == last'.op = "store_init" /\ last'.ret.ok

\* the module instance a successful store_init registered
Registered == modules'[Len(modules')]

\* C1: alloc_K and register_module append the instance and return the count of
\* K before the call; the addresses a successful store_init hands to its
\* module are, kind by kind, the consecutive ones from the count before the
\* call up to the count after it; no count ever decreases
C1_Step ==
    /\ last'.op = "alloc_func" =>
          last'.ret.addr = Some(Len(funcs)) /\ funcs' = Append(funcs, last'.arg)
    /\ last'.op = "alloc_table" =>
          last'.ret.addr = Some(Len(tables)) /\ tables' = Append(tables, last'.arg)
    /\ last'.op = "alloc_mem" =>
          last'.ret.addr = Some(Len(mems)) /\ mems' = Append(mems, last'.arg)
    /\ last'.op = "alloc_global" =>
          last'.ret.addr = Some(Len(globals)) /\ globals' = Append(globals, last'.arg)
    /\ last'.op = "alloc_elem" =>
          last'.ret.addr = Some(Len(elems)) /\ elems' = Append(elems, last'.arg)
    /\ last'.op = "alloc_data" =>
          last'.ret.addr = Some(Len(datas)) /\ datas' = Append(datas, last'.arg)
    /\ last'.op = "register_module" =>
          last'.ret.addr = Some(Len(modules)) /\ modules' = Append(modules, last'.arg)
    /\ StoreInitOk =>
          /\ last'.ret.addr = Some(Len(modules))
          /\ Len(modules') = Len(modules) + 1
          /\ Consecutive(Registered.funcaddrs, Len(funcs))
          /\ Len(Registered.funcaddrs) = Len(funcs') - Len(funcs)
          /\ Consecutive(Registered.memaddrs, Len(mems))
          /\ Len(Registered.memaddrs) = Len(mems') - Len(mems)
          /\ Consecutive(Registered.globaladdrs, Len(globals))
          /\ Len(Registered.globaladdrs) = Len(globals') - Len(globals)
          /\ Consecutive(Registered.dataaddrs, Len(datas))
          /\ Len(Registered.dataaddrs) = Len(datas') - Len(datas)
    /\ Len(funcs') >= Len(funcs) /\ Len(tables') >= Len(tables)
    /\ Len(mems') >= Len(mems) /\ Len(globals') >= Len(globals)
    /\ Len(elems') >= Len(elems) /\ Len(datas') >= Len(datas)
    /\ Len(modules') >= Len(modules)

C1_DenseAddresses == [][C1_Step]_vars

\* a store_init that allocated its function after one that was already there
C1_Witness ==
    /\ last.op = "store_init" /\ last.ret.ok
    /\ modules[Len(modules)].funcaddrs # <<>>
    /\ modules[Len(modules)].funcaddrs[1] >= 1
    /\ funcs[1] = DirectFunc

\* C2: every address valid before a step resolves to the same instance after
\* it, for every kind, whether the step is an alloc_K or a store_init that
\* succeeds or fails
C2_Step ==
    /\ \A a \in 0..(Len(funcs) - 1) : VecGet(funcs', a) = VecGet(funcs, a)
    /\ \A a \in 0..(Len(tables) - 1) : VecGet(tables', a) = VecGet(tables, a)
    /\ \A a \in 0..(Len(mems) - 1) : VecGet(mems', a) = VecGet(mems, a)
    /\ \A a \in 0..(Len(globals) - 1) : VecGet(globals', a) = VecGet(globals, a)
    /\ \A a \in 0..(Len(elems) - 1) : VecGet(elems', a) = VecGet(elems, a)
    /\ \A a \in 0..(Len(datas) - 1) : VecGet(datas', a) = VecGet(datas, a)
    /\ \A a \in 0..(Len(modules) - 1) : VecGet(modules', a) = VecGet(modules, a)

C2_AddressStability == [][C2_Step]_vars

\* a failed store_init in a Store that holds memories and a module
C2_Witness ==
    /\ last.op = "store_init" /\ ~last.ret.ok
    /\ Len(mems) >= 2
    /\ Len(modules) >= 1

\* the addresses of a module instance are indices of the Store's vectors
ValidAddrs(mi) ==
    /\ \A i \in 1..Len(mi.funcaddrs) : mi.funcaddrs[i] \in 0..(Len(funcs) - 1)
    /\ \A i \in 1..Len(mi.tableaddrs) : mi.tableaddrs[i] \in 0..(Len(tables) - 1)
    /\ \A i \in 1..Len(mi.memaddrs) : mi.memaddrs[i] \in 0..(Len(mems) - 1)
    /\ \A i \in 1..Len(mi.globaladdrs) : mi.globaladdrs[i] \in 0..(Len(globals) - 1)
    /\ \A i \in 1..Len(mi.elemaddrs) : mi.elemaddrs[i] \in 0..(Len(elems) - 1)
    /\ \A i \in 1..Len(mi.dataaddrs) : mi.dataaddrs[i] \in 0..(Len(datas) - 1)
    /\ \A i \in 1..Len(mi.exports) :
          LET x == mi.exports[i].addr
          IN  /\ x.kind = "Func" => x.addr \in 0..(Len(funcs) - 1)
              /\ x.kind = "Table" => x.addr \in 0..(Len(tables) - 1)
              /\ x.kind = "Mem" => x.addr \in 0..(Len(mems) - 1)
              /\ x.kind = "Global" => x.addr \in 0..(Len(globals) - 1)

\* C3: every address held by a registered module instance, in its address
\* arrays and in its exports, is a valid index of the Store vector of its kind
C3_AddressesValid == \A i \in 1..Len(modules) : ValidAddrs(modules[i])

\* a second registered module that exports one of its addresses
C3_Witness ==
    /\ Len(modules) >= 2
    /\ modules[2].exports # <<>>
    /\ modules[2].exports[1].addr.addr >= 1

\* C4: a successful store_init appends exactly one module instance and returns
\* the module count at the start of the call; a failed one leaves the module
\* vector as it was
C4_Step ==
    StoreInitStep =>
        IF last'.ret.ok
        THEN /\ last'.ret.addr = Some(Len(modules))
             /\ Len(modules') = Len(modules) + 1
             /\ IsPrefix(modules, modules')
        ELSE modules' = modules

C4_OneModulePerSuccess == [][C4_Step]_vars

\* a second successful instantiation
C4_Witness ==
    /\ last.op = "store_init" /\ last.ret.ok
    /\ last.ret.addr = Some(1)
    /\ Len(modules) = 2

\* C5: the functions a successful store_init allocates for the module (those
\* after the imported ones in funcaddrs) are Wasm functions in the Unparsed
\* state owned by the module address the call returns
C5_Step ==
    StoreInitOk =>
        \A i \in (CountKind(module.imports, "Function") + 1)..Len(Registered.funcaddrs) :
            LET f == funcs'[Registered.funcaddrs[i] + 1]
            IN  /\ f.tag = "Wasm"
                /\ f.code.tag = "Unparsed"
                /\ f.module = Unwrap(last'.ret.addr)

C5_OwnerIsReturnedAddr == [][C5_Step]_vars

\* a second instantiation of a module that defines a function
C5_Witness ==
    /\ last.op = "store_init" /\ last.ret.ok
    /\ last.ret.addr = Some(1)
    /\ Len(modules[2].funcaddrs) > CountKind(module.imports, "Function")
    /\ funcs[Len(funcs)].tag = "Wasm"
    /\ funcs[Len(funcs)].module = 1

\* the entries of the import set under the key of import i
Matching(i) ==
    {j \in 1..Len(entries) : /\ entries[j].module = module.imports[i].module
                             /\ entries[j].name = module.imports[i].name}

\* the imports before i that ask for the same key
EarlierSame(i) ==
    {j \in 1..(i - 1) : /\ module.imports[j].module = module.imports[i].module
                        /\ module.imports[j].name = module.imports[i].name}

\* an entry value of the variant an import kind asks for
EntryIsOfKind(e, kind) ==
    \/ kind = "Function" /\ e.value.variant = "Func"
    \/ kind = "Memory" /\ e.value.variant = "Memory"
    \/ kind = "Global" /\ e.value.variant = "Global"

\* when its turn comes the set has no entry left under the key of import i
Lacks(i) == Cardinality(Matching(i)) <= Cardinality(EarlierSame(i))

\* whichever entry import i takes is of another variant than its kind
BadVariant(i) ==
    /\ Cardinality(Matching(i)) > Cardinality(EarlierSame(i))
    /\ \A j \in Matching(i) : ~EntryIsOfKind(entries[j], module.imports[i].kind)

\* whichever entry import i takes is of the variant of its kind
GoodFor(i) ==
    /\ Cardinality(Matching(i)) > Cardinality(EarlierSame(i))
    /\ \A j \in Matching(i) : EntryIsOfKind(entries[j], module.imports[i].kind)

\* the instances a step added to the Store
NewInstances ==
    (Len(funcs') - Len(funcs)) + (Len(tables') - Len(tables))
        + (Len(mems') - Len(mems)) + (Len(globals') - Len(globals))
        + (Len(elems') - Len(elems)) + (Len(datas') - Len(datas))

MissingImportOf(i) ==
    Err(MissingImport(Utf8OrInvalid(module.imports[i].module),
                      Utf8OrInvalid(module.imports[i].name)))

ImportTypeMismatchOf(i) ==
    Err(ImportTypeMismatch(Utf8OrInvalid(module.imports[i].module),
                           Utf8OrInvalid(module.imports[i].name),
                           ExpectedOf(module.imports[i].kind)))

\* C6 as stated: the first import in declaration order for which the set has
\* no entry left, the earlier ones being satisfied, makes store_init fail
\* with MissingImport carrying its module and field name, whatever its kind
C6_Original_Step ==
    StoreInitStep =>
        \A i \in 1..Len(module.imports) :
            (Lacks(i) /\ \A j \in 1..(i - 1) : GoodFor(j))
                => last'.ret = MissingImportOf(i)

C6_Original == [][C6_Original_Step]_vars

\* C6: the first import in declaration order for which the set has no entry
\* left, the earlier ones being satisfied, makes store_init fail with
\* MissingImport carrying its module and field name when it is a Function,
\* Memory or Global import, and with UnsupportedType when it is a Table import
C6_Step ==
    StoreInitStep =>
        \A i \in 1..Len(module.imports) :
            (Lacks(i) /\ \A j \in 1..(i - 1) : GoodFor(j))
                => IF module.imports[i].kind = "Table"
                   THEN last'.ret = Err(UnsupportedType(<<"table imports not yet supported">>))
                   ELSE last'.ret = MissingImportOf(i)

C6_FirstMissingImport == [][C6_Step]_vars

\* the second import is the missing one, the first was resolved
C6_Witness ==
    /\ last.op = "store_init" /\ ~last.ret.ok
    /\ Len(module.imports) = 2
    /\ last.ret = Err(MissingImport(Utf8OrInvalid(module.imports[2].module),
                                    Utf8OrInvalid(module.imports[2].name)))
    /\ Len(funcs) + Len(mems) + Len(globals) = 1
    /\ entries # <<>>

\* C7 as stated: an import whose entry is of another variant than its kind,
\* the earlier ones being satisfied, makes store_init fail with
\* ImportTypeMismatch naming it, whatever its kind, with nothing allocated
\* for that entry
C7_Original_Step ==
    StoreInitStep =>
        \A i \in 1..Len(module.imports) :
            (BadVariant(i) /\ \A j \in 1..(i - 1) : GoodFor(j))
                => /\ last'.ret = ImportTypeMismatchOf(i)
                   /\ NewInstances = i - 1
                   /\ modules' = modules

C7_Original == [][C7_Original_Step]_vars

\* C7: a Function, Memory or Global import whose entry is of another variant
\* than its kind, the earlier ones being satisfied, makes store_init fail
\* with ImportTypeMismatch naming it; the Store then holds one new instance
\* for each earlier import and none for that entry, which has left the set
C7_Step ==
    StoreInitStep =>
        \A i \in 1..Len(module.imports) :
            (/\ module.imports[i].kind # "Table"
             /\ BadVariant(i)
             /\ \A j \in 1..(i - 1) : GoodFor(j))
                => /\ last'.ret = ImportTypeMismatchOf(i)
                   /\ NewInstances = i - 1
                   /\ modules' = modules
                   /\ Len(entries') = Len(entries) - i

C7_VariantMismatch == [][C7_Step]_vars

\* a mismatch on the second import, after the first moved into the Store
C7_Witness ==
    /\ last.op = "store_init" /\ ~last.ret.ok
    /\ Len(module.imports) = 2
    /\ last.ret.err[1].kind = "ImportTypeMismatch"
    /\ last.ret.err[1].name = Utf8OrInvalid(module.imports[2].name)
    /\ Len(funcs) + Len(mems) + Len(globals) = 1
    /\ entries = <<>>

\* the positions of the set that hold an entry under key k
Hits(k) ==
    {i \in 1..Len(entries) : entries[i].module = k.module /\ entries[i].name = k.name}

\* the set is in the order its entries were added
InAddOrder ==
    \A i \in 1..Len(entries) : \A j \in 1..Len(entries) :
        i < j => StampOf(entries[i]) < StampOf(entries[j])

\* a take step returned entry e of the set before it and removed nothing else
TookOnly(e) ==
    /\ last'.ret = Some(e)
    /\ Len(entries') = Len(entries) - 1
    /\ Range(entries') = Range(entries) \ {e}

\* C8 as stated: take removes and returns the earliest-added entry under the
\* key, returns absent when there is none, and leaves every other entry
C8_Original_Step ==
    last'.op = "take" =>
        LET h == Hits(last'.key)
        IN  IF h = {} THEN last'.ret = None /\ entries' = entries
            ELSE TookOnly(entries[CHOOSE i \in h :
                             \A j \in h : StampOf(entries[i]) <= StampOf(entries[j])])

C8_Original == [][C8_Original_Step]_vars

\* C8: take removes and returns the entry under the key at the lowest
\* position of the set's current order, which is the earliest-added one as
\* long as the set is in the order of the adds (a take moves the last entry
\* to the position it vacates); it returns absent and changes nothing when
\* no entry is under the key, and it leaves every other entry in the set
C8_Step ==
    last'.op = "take" =>
        LET h == Hits(last'.key)
        IN  IF h = {} THEN last'.ret = None /\ entries' = entries
            ELSE LET first == CHOOSE i \in h : \A j \in h : i <= j
                 IN  /\ TookOnly(entries[first])
                     /\ InAddOrder =>
                           \A j \in h : StampOf(entries[first]) <= StampOf(entries[j])

C8_TakeFirstInCurrentOrder == [][C8_Step]_vars

\* a take returned an entry added later than one it left under the same key
C8_Witness ==
    /\ last.op = "take" /\ IsSome(last.ret)
    /\ \E i \in Hits(last.key) : StampOf(entries[i]) < StampOf(Unwrap(last.ret))

\* every import of the module is satisfied by the import set
ImportsResolve == \A j \in 1..Len(module.imports) : GoodFor(j)

\* the store_init step failed with FuncCodeMismatch
IsFuncCodeMismatch == ~last'.ret.ok /\ last'.ret.err[1].kind = "FuncCodeMismatch"

\* the functions the step allocated beyond the imported ones
NewModuleFuncs == Len(funcs') - Len(funcs) - CountKind(module.imports, "Function")

\* C9 as stated: FuncCodeMismatch when both sections are nonempty and differ
\* in length, otherwise one function per function-section entry
C9_Original_Step ==
    (StoreInitStep /\ ImportsResolve) =>
        LET f == Len(module.funcs)
            c == Len(module.code)
        IN  IF f # 0 /\ c # 0 /\ f # c
            THEN last'.ret = Err(FuncCodeMismatch(f, c))
            ELSE ~IsFuncCodeMismatch /\ NewModuleFuncs = f

C9_Original == [][C9_Original_Step]_vars

\* C9: once the imports have resolved, store_init fails with
\* FuncCodeMismatch{func_count, code_count} when the function section is
\* nonempty and its length differs from that of the code section (an empty
\* code section included), allocating no function of the module; otherwise
\* it allocates one Wasm function per code-section entry, so the number of
\* module-defined function addresses equals the number of code entries
C9_Step ==
    (StoreInitStep /\ ImportsResolve) =>
        LET f == Len(module.funcs)
            c == Len(module.code)
        IN  IF f # 0 /\ f # c
            THEN last'.ret = Err(FuncCodeMismatch(f, c)) /\ NewModuleFuncs = 0
            ELSE /\ ~IsFuncCodeMismatch
                 /\ NewModuleFuncs = c
                 /\ last'.ret.ok =>
                       Len(Registered.funcaddrs)
                           = CountKind(module.imports, "Function") + c

C9_FuncCodeCheck == [][C9_Step]_vars

\* a function section without a code section was rejected
C9_Witness ==
    /\ last.op = "store_init"
    /\ module.funcs # <<>>
    /\ module.code = <<>>
    /\ last.ret = Err(FuncCodeMismatch(Len(module.funcs), 0))

\* C10 as stated: after a successful store_init globaladdrs holds one address
\* per imported global followed by one per declared global, each declared
\* global allocated in the Store
C10_Original_Step ==
    StoreInitOk =>
        /\ Len(Registered.globaladdrs)
               = CountKind(module.imports, "Global") + Len(module.globals)
        /\ Len(globals') - Len(globals)
               = CountKind(module.imports, "Global") + Len(module.globals)

C10_Original == [][C10_Original_Step]_vars

-----------------------------------------------------------------------------
(* Instantiation of modules with memories and data segments *)

\* AwwasmTrap::MemoryOutOfBounds
MemoryOutOfBounds(offset, size, memory_size) ==
    [tag |-> "MemoryOutOfBounds", offset |-> offset, size |-> size,
     memory_size |-> memory_size]

\* Result<T, AwwasmTrap>
Returned(v) == [ok |-> TRUE, value |-> Some(v), trap |-> None]

Trapped(t) == [ok |-> FALSE, value |-> None, trap |-> Some(t)]

\* AwwasmMemInst::write: [ok, mem, ret]; start + data.len() is a usize sum
\* of a u32 and a slice length, which checked_add never refuses
MemWrite(mem, offset, bytes) ==
    LET size == Wide(0, Len(bytes))
        end  == WAdd(offset, size)
    IN  IF WLt(mem.data.len, end)
        THEN [ok |-> FALSE, mem |-> mem,
              ret |-> Trapped(MemoryOutOfBounds(offset, AsU32(size), AsU32(mem.data.len)))]
        ELSE [ok |-> TRUE,
              mem |-> [mem EXCEPT !.data = CopyFromSlice(mem.data, offset, bytes)],
              ret |-> Returned(<<>>)]

\* the memory declarations: (memory 1 4), (memory 0), (memory 2 2) and the
\* largest memory of the 32-bit model, (memory 65536)
MemoryItems ==
    {[limits |-> [min |-> 1, max |-> Some(4)]],
     [limits |-> [min |-> 0, max |-> None]],
     [limits |-> [min |-> 2, max |-> Some(2)]],
     [limits |-> [min |-> PAGE_SIZE, max |-> None]]}

DataItem(flags, memidx, code, bytes) ==
    [header |-> [flags |-> flags, memidx |-> memidx, offset |-> Some([code |-> code])],
     data_bytes |-> bytes]

\* data segments: active at 16; passive; active in memory 1 at 0; active at
\* 65535 and at 65534, the last two bytes of a page and one further; active
\* at 17, over the second byte of the first; active with flags 2 and no
\* memory index at 17, its first byte zero; active at i32.const -1
MemDataItems ==
    {DataItem(0, None, <<65, 16, 11>>, <<104, 105>>),
     [header |-> [flags |-> 1, memidx |-> None, offset |-> None],
      data_bytes |-> <<104, 105>>],
     DataItem(2, Some(1), <<65, 0, 11>>, <<33>>),
     DataItem(0, None, <<65, 255, 255, 3, 11>>, <<104, 105>>),
     DataItem(0, None, <<65, 254, 255, 3, 11>>, <<104, 105>>),
     DataItem(0, None, <<65, 17, 11>>, <<121, 111>>),
     DataItem(2, None, <<65, 17, 11>>, <<0, 7>>),
     DataItem(0, None, <<65, 127, 11>>, <<104, 105>>)}

\* the modules made of memory imports, memories and data segments, with at
\* most MaxMemModuleSize entries in all
MemModules ==
    UNION {UNION {{[imports |-> imp, funcs |-> <<>>, code |-> <<>>, memories |-> mm,
                    globals |-> <<>>, data |-> dd, exports |-> <<>>] :
                      dd \in SeqsUpTo(MemDataItems,
                                      MaxMemModuleSize - Len(imp) - Len(mm))} :
                  mm \in SeqsUpTo(MemoryItems, MaxMemModuleSize - Len(imp))} :
           imp \in SeqsUpTo({ImportItem(KeyEnvMemory, "Memory")}, 1)}

\* the memories the embedder supplies: a fresh page, and a page it wrote to
WrittenMem == MemWrite(ImportedMem(1), Wide(0, 16), <<1, 2>>).mem

InitMem ==
    /\ EmptyStore
    /\ entries = <<>>
    /\ module \in MemModules
    /\ last = NoCall

AddMemEntry ==
    /\ Len(entries) < Len(module.imports)
    /\ \E mem \in {ImportedMem(1), WrittenMem} : add_memory(NameEnv, NameMemory, mem)

NextMem ==
    \/ AddMemEntry
    \/ store_init

SpecMem == InitMem /\ [][NextMem]_vars

\* C11: once the imports have resolved and the function and code sections
\* agree, store_init allocates one memory per declared memory, after the
\* imported ones: its type is the declared (min, max), its buffer has
\* min * 65,536 bytes, all zero when no data segment is there to write to it;
\* on success memaddrs holds the addresses of the imported memories followed
\* by those of the declared ones, and nothing else
C11_Step ==
    (StoreInitStep /\ ImportsResolve /\ ~IsFuncCodeMismatch) =>
        LET im   == CountKind(module.imports, "Memory")
            n    == Len(module.memories)
            base == Len(mems)
        IN  /\ Len(mems') = base + im + n
            /\ \A i \in 1..n :
                  LET mem == mems'[base + im + i]
                      lim == module.memories[i].limits
                  IN  /\ mem.type_.min = lim.min
                      /\ mem.type_.max = lim.max
                      /\ mem.data.len = [hi |-> lim.min, lo |-> 0]
                      /\ module.data = <<>> => DOMAIN mem.data.nz = {}
            /\ last'.ret.ok =>
                  /\ Len(Registered.memaddrs) = im + n
                  /\ \A j \in 1..(im + n) : Registered.memaddrs[j] = base + j - 1

C11_DeclaredMemories == [][C11_Step]_vars

\* an imported memory followed by two declared memories of different types
C11_Witness ==
    /\ last.op = "store_init" /\ last.ret.ok
    /\ Len(module.imports) = 1
    /\ modules[1].memaddrs = <<0, 1, 2>>
    /\ mems[2].type_ # mems[3].type_
    /\ mems[3].data.len # mems[2].data.len

\* data segment j of the module is active
IsActive(j) == module.data[j].header.flags # 1

\* the memory index active segment j names: its memidx under flags 2, else 0
TargetOf(j) ==
    LET h == module.data[j].header
    IN  IF h.flags = 2 /\ h.memidx # None THEN h.memidx[1] ELSE 0

\* the evaluated offset of active segment j
OffsetOf(j) == EvalConstExpr(module.data[j].header.offset[1].code).value

\* the offsets active segment j writes
RangeOf(j) ==
    {WAdd(OffsetOf(j), Wide(0, i - 1)) : i \in 1..Len(module.data[j].data_bytes)}

\* the byte active segment j writes at offset o of its range
ByteOf(j, o) ==
    LET bytes == module.data[j].data_bytes
    IN  bytes[CHOOSE i \in 1..Len(bytes) : WAdd(OffsetOf(j), Wide(0, i - 1)) = o]

\* the active segments that write offset o of memory index k
Writers(k, o) ==
    {j \in 1..Len(module.data) : IsActive(j) /\ TargetOf(j) = k /\ o \in RangeOf(j)}

\* buffer `after` is buffer `before` overlaid with the active segments of
\* memory index k, in declaration order
IsOverlay(after, before, k) ==
    /\ after.len = before.len
    /\ \A o \in (DOMAIN after.nz) \cup (DOMAIN before.nz)
                 \cup UNION {RangeOf(j) : j \in {x \in 1..Len(module.data) : IsActive(x)}} :
          ByteAt(after, o) =
              IF Writers(k, o) = {} THEN ByteAt(before, o)
              ELSE ByteOf(CHOOSE j \in Writers(k, o) : \A x \in Writers(k, o) : x <= j, o)

\* the import that supplies memory index k of the module (0-based)
MemImportIndex(k) ==
    CHOOSE i \in 1..Len(module.imports) :
        /\ module.imports[i].kind = "Memory"
        /\ Cardinality({j \in 1..(i - 1) : module.imports[j].kind = "Memory"}) = k

\* C12: after a successful store_init every memory of the module holds its
\* initial contents (zero for a declared memory, the contents of the entry
\* for an imported one) overlaid with the bytes of the active data segments
\* that target it (flags 0 to memory 0, flags 2 to its memidx, 0 by default)
\* at their evaluated offsets, a later segment over an earlier one; passive
\* segments write nothing and no other byte changes
C12_Step ==
    StoreInitOk =>
        LET im == CountKind(module.imports, "Memory")
        IN  \A k \in 0..(Len(Registered.memaddrs) - 1) :
                LET after == mems'[Registered.memaddrs[k + 1] + 1].data
                IN  IF k < im
                    THEN \E e \in Matching(MemImportIndex(k)) :
                            IsOverlay(after, entries[e].value.inst.data, k)
                    ELSE IsOverlay(after,
                                   [len |-> [hi |-> module.memories[k - im + 1].limits.min,
                                             lo |-> 0],
                                    nz |-> [o \in {} |-> 0]],
                                   k)

C12_ActiveDataOverlay == [][C12_Step]_vars

\* two overlapping segments: the later one won at offset 17, the earlier one
\* kept offset 16
C12_Witness ==
    /\ last.op = "store_init" /\ last.ret.ok
    /\ Len(module.data) = 2
    /\ Len(mems) >= 1
    /\ ByteAt(mems[1].data, Wide(0, 16)) = 104
    /\ ByteAt(mems[1].data, Wide(0, 17)) = 121
    /\ ByteAt(mems[1].data, Wide(0, 18)) = 111

\* the memories of the module once the memory loop has run
MemCount == CountKind(module.imports, "Memory") + Len(module.memories)

\* the buffer length of memory index k of the module being instantiated
BufLenOf(k) == mems'[Len(mems) + k + 1].data.len

\* offset + len of active segment j
EndOf(j) == WAdd(OffsetOf(j), Wide(0, Len(module.data[j].data_bytes)))

\* active segment j names no memory of the module, or ends past its buffer
OutOfBounds(j) ==
    /\ IsActive(j)
    /\ \/ TargetOf(j) >= MemCount
       \/ WLt(BufLenOf(TargetOf(j)), EndOf(j))

\* C13 as stated: the first active segment whose memory index does not
\* resolve, or whose offset + len exceeds the buffer length, makes store_init
\* fail with DataSegmentOutOfBounds carrying its index, offset and size, and
\* the buffer length of the memory when there is one; segments that end at
\* or before the buffer length are accepted
C13_Original_Step ==
    (StoreInitStep /\ ImportsResolve /\ ~IsFuncCodeMismatch /\ module.exports = <<>>) =>
        /\ \A j \in 1..Len(module.data) :
              (OutOfBounds(j) /\ \A x \in 1..(j - 1) : ~OutOfBounds(x))
                  => last'.ret = Err(DataSegmentOutOfBounds(
                                     j - 1, OffsetOf(j),
                                     Wide(0, Len(module.data[j].data_bytes)),
                                     IF TargetOf(j) < MemCount
                                     THEN BufLenOf(TargetOf(j)) ELSE Wide(0, 0)))
        /\ (\A j \in 1..Len(module.data) : ~OutOfBounds(j)) => last'.ret.ok

C13_Original == [][C13_Original_Step]_vars

-----------------------------------------------------------------------------
(* Instantiation of modules with exports, and a memory handed from one      *)
(* module to the next                                                       *)

NameG == <<103>>

NameT == <<116>>

\* the exports: the first and second function, the first and second memory,
\* the first global, the first table
ExpItems ==
    {ExportItem(NameF, "Function", 0), ExportItem(NameF, "Function", 1),
     ExportItem(NameMemory, "Memory", 0), ExportItem(NameMemory, "Memory", 1),
     ExportItem(NameG, "Global", 0), ExportItem(NameT, "Table", 0)}

\* the modules: one import or none; a function or none; a memory or none; a
\* global or none; a data segment at 16 of memory 0 or none; MaxExports
\* exports at most
ExpModules ==
    {[imports |-> imp, funcs |-> ff, code |-> [i \in 1..Len(ff) |-> CodeItem],
      memories |-> mm,
      globals |-> gg,
      data |-> dd,
      exports |-> ee] :
        imp \in SeqsUpTo({ImportItem(KeyEnvMemory, "Memory"),
                          ImportItem(KeyEnvF, "Function"),
                          ImportItem(KeyEnvF, "Global")}, 1),
        ff \in SeqsUpTo({0}, 1),
        mm \in SeqsUpTo({MemoryItem}, 1),
        gg \in SeqsUpTo({GlobalItem}, 1),
        dd \in SeqsUpTo({DataItem(0, None, <<65, 16, 11>>, <<104, 105>>)}, 1),
        ee \in SeqsUpTo(ExpItems, MaxExports)}

\* the embedder reads a memory a registered module exports (store.mem(addr),
\* cloned: the Store keeps its instance) and adds it to the import set
add_exported_memory ==
    /\ Len(entries) < Len(module.imports)
    /\ \E i \in 1..Len(modules) : \E x \in 1..Len(modules[i].exports) :
          /\ modules[i].exports[x].addr.kind = "Mem"
          /\ add_memory(NameEnv, NameMemory,
                        Unwrap(VecGet(mems, modules[i].exports[x].addr.addr)))

InitExp ==
    /\ EmptyStore
    /\ entries = <<>>
    /\ module \in ExpModules
    /\ last = NoCall

NextExp ==
    \/ AddInitEntry
    \/ add_exported_memory
    \/ store_init

SpecExp == InitExp /\ [][NextExp]_vars

\* the address array of module instance mi for an export kind, and the
\* ExternAddr variant of that kind
ArrayOf(mi, kind) ==
    IF kind = "Function" THEN mi.funcaddrs
    ELSE IF kind = "Memory" THEN mi.memaddrs
    ELSE IF kind = "Table" THEN mi.tableaddrs
    ELSE mi.globaladdrs

VariantName(kind) ==
    IF kind = "Function" THEN "Func"
    ELSE IF kind = "Memory" THEN "Mem"
    ELSE IF kind = "Table" THEN "Table"
    ELSE "Global"

\* C14: after a successful store_init the export list of the module instance
\* has one entry per export of the module, in declaration order, with the
\* name bytes of the export, the ExternAddr variant of its kind, and the
\* address the instance holds at the export's index in the array of that kind
C14_Step ==
    StoreInitOk =>
        /\ Len(Registered.exports) = Len(module.exports)
        /\ \A i \in 1..Len(module.exports) :
              LET x == module.exports[i]
                  e == Registered.exports[i]
              IN  /\ e.name = x.name
                  /\ e.addr.kind = VariantName(x.kind)
                  /\ x.index < Len(ArrayOf(Registered, x.kind))
                  /\ e.addr.addr = ArrayOf(Registered, x.kind)[x.index + 1]

C14_ExportsResolved == [][C14_Step]_vars

\* a second instantiation exporting its memory and then its function
C14_Witness ==
    /\ last.op = "store_init" /\ last.ret.ok
    /\ Len(modules) = 2
    /\ Len(modules[2].exports) = 2
    /\ modules[2].exports[1] = ExportInst(NameMemory, ExternAddr("Mem", 1))
    /\ modules[2].exports[2] = ExportInst(NameF, ExternAddr("Func", 1))

\* the entities of a kind the module imports or declares
Entities(kind) ==
    CountKind(module.imports, kind)
        + (IF kind = "Function" THEN Len(module.funcs)
           ELSE IF kind = "Memory" THEN Len(module.memories)
           ELSE IF kind = "Global" THEN Len(module.globals)
           ELSE 0)

\* export i names an entity the module neither imports nor declares
Dangling(i) == module.exports[i].index >= Entities(module.exports[i].kind)

IsMissingSelf == ~last'.ret.ok /\ last'.ret.err[1].kind = "MissingImport"
                     /\ last'.ret.err[1].module = NameSelf

\* C15 as stated: the first export whose index names no entity of its kind
\* makes store_init fail with MissingImport{"self", name of the export}, and
\* exports that name entities the module imports or declares resolve
C15_Original_Step ==
    (StoreInitStep /\ ImportsResolve /\ ~IsFuncCodeMismatch) =>
        /\ \A i \in 1..Len(module.exports) :
              (Dangling(i) /\ \A j \in 1..(i - 1) : ~Dangling(j))
                  => last'.ret = Err(MissingImport(NameSelf,
                                                   Utf8OrInvalid(module.exports[i].name)))
        /\ (\A i \in 1..Len(module.exports) : ~Dangling(i)) => ~IsMissingSelf

C15_Original == [][C15_Original_Step]_vars

\* the addresses of the memories the registered modules export
ExportedMems ==
    UNION {{modules[i].exports[x].addr.addr :
               x \in {y \in 1..Len(modules[i].exports) :
                         modules[i].exports[y].addr.kind = "Mem"}} :
           i \in 1..Len(modules)}

\* C16 as stated: when the memory an instantiated module exports (one that
\* was written to, so that no fresh memory is taken for it) is supplied as
\* the import of the next module, the two module instances hold the same
\* memory address after the second store_init
C16_Original_Step ==
    StoreInitOk =>
        \A i \in 1..Len(module.imports) :
            (/\ module.imports[i].kind = "Memory"
             /\ \A e \in Matching(i) :
                   \E a \in ExportedMems :
                       /\ DOMAIN mems[a + 1].data.nz # {}
                       /\ entries[e].value.inst = mems[a + 1])
                => \E a \in ExportedMems : a \in Range(Registered.memaddrs)

C16_Original == [][C16_Original_Step]_vars

\* C17: once the imports have resolved and the function and code sections
\* agree, store_init allocates one data instance per data segment, active or
\* passive, in declaration order, holding the bytes of the segment and not
\* dropped; on success dataaddrs holds exactly their addresses, in order
C17_Step ==
    (StoreInitStep /\ ImportsResolve /\ ~IsFuncCodeMismatch) =>
        /\ Len(datas') = Len(datas) + Len(module.data)
        /\ \A i \in 1..Len(module.data) :
              /\ datas'[Len(datas) + i].data = module.data[i].data_bytes
              /\ datas'[Len(datas) + i].dropped = FALSE
        /\ last'.ret.ok =>
              /\ Len(Registered.dataaddrs) = Len(module.data)
              /\ \A i \in 1..Len(module.data) :
                    Registered.dataaddrs[i] = Len(datas) + i - 1

C17_DataInstances == [][C17_Step]_vars

\* a passive and an active segment with different bytes, both kept
C17_Witness ==
    /\ last.op = "store_init" /\ last.ret.ok
    /\ Len(module.data) = 2
    /\ module.data[1].header.flags = 1
    /\ module.data[2].header.flags = 2
    /\ modules[1].dataaddrs = <<0, 1>>
    /\ datas[1].data # datas[2].data

\* C18: a module with a Table import is never instantiated: store_init fails
\* and registers no module; when the imports before the Table import are
\* satisfied the error is UnsupportedType{"table imports not yet supported"},
\* whether or not the import set holds an entry under the Table import's
\* names, and the set keeps every entry the earlier imports did not take
C18_Step ==
    StoreInitStep =>
        \A i \in 1..Len(module.imports) :
            module.imports[i].kind = "Table" =>
                /\ ~last'.ret.ok
                /\ modules' = modules
                /\ (\A j \in 1..(i - 1) : GoodFor(j)) =>
                      /\ last'.ret
                            = Err(UnsupportedType(<<"table imports not yet supported">>))
                      /\ NewInstances = i - 1
                      /\ Len(entries') = Len(entries) - (i - 1)

C18_TableImportRejected == [][C18_Step]_vars

\* a Table import rejected after an earlier import was resolved, with an
\* entry under its names left in the set
C18_Witness ==
    /\ last.op = "store_init"
    /\ last.ret = Err(UnsupportedType(<<"table imports not yet supported">>))
    /\ Len(module.imports) = 2
    /\ module.imports[2].kind = "Table"
    /\ Len(funcs) + Len(mems) + Len(globals) = 1
    /\ \E e \in 1..Len(entries) : /\ entries[e].module = module.imports[2].module
                                 /\ entries[e].name = module.imports[2].name

-----------------------------------------------------------------------------
(* A memory instance and its growth (memory.rs) *)

\* AwwasmMemInst::size_pages: data.len() / PAGE_SIZE
SizePages(mem) == mem.data.len.hi

\* a resize that leaves the first appended byte at 255
ResizeStale(buf, new_size) ==
    LET kept  == {o \in DOMAIN buf.nz : WLt(o, new_size)}
        stale == IF WLt(buf.len, new_size) THEN {buf.len} ELSE {}
    IN  [len |-> new_size,
         nz |-> [o \in kept \cup stale |-> IF o \in kept THEN buf.nz[o] ELSE 255]]

\* Vec::resize(new_size, 0): zeros appended, or the tail cut off
Resize(buf, new_size) ==
    LET kept == {o \in DOMAIN buf.nz : WLt(o, new_size)}
    IN  [len |-> new_size, nz |-> [o \in kept |-> buf.nz[o]]]

\* a grow that resizes the buffer to new_pages bytes instead of pages
GrowUnscaled(mem, delta) ==
    LET old_pages == SizePages(mem)
        sum       == WAdd(Wide(0, old_pages), delta)
    IN  IF sum.hi >= PAGE_SIZE \/ WLt(Wide(1, 0), sum)
        THEN [ret |-> None, mem |-> mem]
        ELSE [ret |-> Some(old_pages),
              mem |-> [mem EXCEPT !.data = Resize(mem.data, sum)]]

\* a grow without the 65,536-page ceiling
GrowNoCeiling(mem, delta) ==
    LET old_pages == SizePages(mem)
        sum       == WAdd(Wide(0, old_pages), delta)
    IN  IF sum.hi >= PAGE_SIZE
           \/ (IsSome(mem.type_.max) /\ WLt(Wide(0, Unwrap(mem.type_.max)), sum))
        THEN [ret |-> None, mem |-> mem]
        ELSE [ret |-> Some(old_pages),
              mem |-> [mem EXCEPT !.data = Resize(mem.data, sum)]]

\* a grow that, when refused for the max, cuts the buffer down to max pages
GrowRefusedCuts(mem, delta) ==
    LET old_pages == SizePages(mem)
        sum       == WAdd(Wide(0, old_pages), delta)
    IN  IF sum.hi >= PAGE_SIZE \/ WLt(Wide(1, 0), sum)
        THEN [ret |-> None, mem |-> mem]
        ELSE IF IsSome(mem.type_.max) /\ WLt(Wide(0, Unwrap(mem.type_.max)), sum)
        THEN [ret |-> None,
              mem |-> [mem EXCEPT !.data =
                          Resize(mem.data, PagesToBytes(Unwrap(mem.type_.max)))]]
        ELSE [ret |-> Some(old_pages),
              mem |-> [mem EXCEPT !.data = Resize(mem.data, sum)]]

\* AwwasmMemInst::grow(delta), delta a u32: [ret: Option<old_pages>, mem]
Grow(mem, delta) ==
    LET old_pages == SizePages(mem)
        sum       == WAdd(Wide(0, old_pages), delta)
    IN  IF sum.hi >= PAGE_SIZE
        THEN [ret |-> None, mem |-> mem]                      \* checked_add
        ELSE IF IsSome(mem.type_.max) /\ WLt(Wide(0, Unwrap(mem.type_.max)), sum)
        THEN [ret |-> None, mem |-> mem]                      \* new_pages > max
        ELSE IF WLt(Wide(1, 0), sum)
        THEN [ret |-> None, mem |-> mem]                      \* new_pages > 65536
        ELSE LET new_pages == sum.hi * PAGE_SIZE + sum.lo
             IN  [ret |-> Some(old_pages),
                  mem |-> [mem EXCEPT !.data = Resize(mem.data, PagesToBytes(new_pages))]]

\* store.mem_mut(addr)?.grow(delta) on the memory at address 0
mem_grow(delta) ==
    LET r == Grow(mems[1], delta)
    IN  /\ last.calls < MaxGrows
        /\ mems' = [mems EXCEPT ![1] = r.mem]
        /\ last' = [op |-> "grow", delta |-> delta, ret |-> r.ret,
                    calls |-> last.calls + 1]
        /\ UNCHANGED <<funcs, tables, globals, elems, datas, modules, entries, module>>

\* the memory types: min and max around 0, a few pages and the 65,536-page
\* ceiling, a max below the min included
GrowTypes ==
    {MemoryType(min, max) :
        min \in {0, 1, 2, PAGE_SIZE - 1, PAGE_SIZE, PAGE_SIZE + 1},
        max \in {None, Some(0), Some(1), Some(3), Some(PAGE_SIZE), Some(PAGE_SIZE + 1)}}

\* the deltas: 0, 1, 2, 65,535, 65,536 and u32::MAX
GrowDeltas ==
    {Wide(0, 0), Wide(0, 1), Wide(0, 2), Wide(0, PAGE_SIZE - 1), Wide(1, 0),
     Wide(PAGE_SIZE - 1, PAGE_SIZE - 1)}

\* the memories grown: fresh from AwwasmMemInst::new, or with two bytes
\* written at offset 16 when there is a page to hold them
GrowMems ==
    {MemNew(t) : t \in GrowTypes}
    \cup {MemWrite(MemNew(t), Wide(0, 16), <<1, 2>>).mem : t \in {u \in GrowTypes : u.min >= 1}}

\* a Store holding one memory made by AwwasmMemInst::new
InitGrow ==
    /\ funcs = <<>> /\ tables = <<>> /\ globals = <<>>
    /\ elems = <<>> /\ datas = <<>> /\ modules = <<>>
    /\ \E mem \in GrowMems : mems = <<mem>>
    /\ entries = <<>>
    /\ module = EmptyModule
    /\ last = [op |-> "new", ret |-> None, calls |-> 0]

NextGrow == \E delta \in GrowDeltas : mem_grow(delta)

SpecGrow == InitGrow /\ [][NextGrow]_vars

\* C19: for a memory made by new(type) and grown by any sequence of grow
\* calls, successful or not, the buffer length is a whole multiple of 65,536
\* (no byte count beyond the pages), equals size_pages() * 65,536, and
\* size_pages() is at least the min of the type
C19_PageAligned ==
    \A i \in 1..Len(mems) :
        /\ mems[i].data.len.lo = 0
        /\ mems[i].data.len = PagesToBytes(SizePages(mems[i]))
        /\ SizePages(mems[i]) >= mems[i].type_.min

\* a grow refused after an earlier one extended the memory
C19_Witness ==
    /\ last.op = "grow"
    /\ last.ret = None
    /\ SizePages(mems[1]) > mems[1].type_.min

\* C20 as stated: every memory made by new(type), for any type, and grown by
\* any sequence of grow calls has at most max pages when max is set, and at
\* most 65,536 pages
C20_Original ==
    \A i \in 1..Len(mems) :
        /\ IsSome(mems[i].type_.max) => SizePages(mems[i]) <= Unwrap(mems[i].type_.max)
        /\ SizePages(mems[i]) <= PAGE_SIZE

\* C21: grow(delta) returns None exactly when current_pages + delta overflows
\* u32, or exceeds max when max is set, or exceeds 65,536; in every other
\* case it returns the previous page count and the page count becomes
\* current_pages + delta
C21_Step ==
    LET current == SizePages(mems[1])
        max     == mems[1].type_.max
        delta   == last'.delta
        far     == delta.hi > 1 \/ (delta.hi = 1 /\ current + delta.lo > 0)
                   \/ (delta.hi = 0 /\ current + delta.lo > PAGE_SIZE)
        pages   == current + delta.hi * PAGE_SIZE + delta.lo
        refused == far \/ (IsSome(max) /\ pages > Unwrap(max))
    IN  last'.op = "grow" =>
            /\ (last'.ret = None) <=> refused
            /\ ~refused => /\ last'.ret = Some(current)
                           /\ SizePages(mems'[1]) = pages

C21_GrowResult == [][C21_Step]_vars

\* grow(0) on a memory within its limits returned the page count it has
C21_Witness ==
    /\ last.op = "grow"
    /\ last.delta = Wide(0, 0)
    /\ SizePages(mems[1]) >= 1
    /\ last.ret = Some(SizePages(mems[1]))

\* C22: no grow call decreases the page count, and a grow that returns None
\* leaves the page count and every byte of the buffer unchanged
C22_Step ==
    last'.op = "grow" =>
        /\ SizePages(mems'[1]) >= SizePages(mems[1])
        /\ last'.ret = None => mems'[1].data = mems[1].data

C22_GrowMonotonic == [][C22_Step]_vars

\* a refused grow on a memory that holds written bytes
C22_Witness ==
    /\ last.op = "grow"
    /\ last.ret = None
    /\ DOMAIN mems[1].data.nz # {}

-----------------------------------------------------------------------------
(* Accesses to a memory instance (memory.rs) *)

\* u32::MAX
U32Max == Wide(PAGE_SIZE - 1, PAGE_SIZE - 1)

\* a - b + c on byte offsets
WShift(a, b, c) == Wide(a.hi - b.hi + c.hi, a.lo - b.lo + c.lo)

\* start <= o < end
InRange(o, start, end) == WLe(start, o) /\ WLt(o, end)

\* the n bytes of a buffer from start on
Slice(buf, start, n) == [i \in 1..n |-> ByteAt(buf, WAdd(start, Wide(0, i - 1)))]

\* a read that refuses a slice ending at the end of the buffer
MemReadShort(mem, offset, size) ==
    LET end == WAdd(offset, size)
    IN  IF WLe(mem.data.len, end)
        THEN Trapped(MemoryOutOfBounds(offset, size, AsU32(mem.data.len)))
        ELSE Returned([start |-> offset, end |-> end])

\* AwwasmMemInst::read: the slice start..end of the buffer, or the trap
MemRead(mem, offset, size) ==
    LET start == offset
        end   == WAdd(start, size)
    IN  IF WLt(mem.data.len, end)
        THEN Trapped(MemoryOutOfBounds(offset, size, AsU32(mem.data.len)))
        ELSE Returned([start |-> start, end |-> end])

\* buf[start..end].fill(value)
FillRange(buf, start, end, value) ==
    LET kept  == {o \in DOMAIN buf.nz : ~InRange(o, start, end)}
        count == (end.hi - start.hi) * PAGE_SIZE + end.lo - start.lo
        range == IF value = 0 THEN {}
                 ELSE {WAdd(start, Wide(0, i)) : i \in 0..(count - 1)}
    IN  [len |-> buf.len,
         nz  |-> [o \in kept \cup range |-> IF o \in range THEN value ELSE buf.nz[o]]]

\* AwwasmMemInst::fill: [mem, ret]
MemFill(mem, offset, value, size) ==
    LET start == offset
        end   == WAdd(start, size)
    IN  IF WLt(mem.data.len, end)
        THEN [mem |-> mem,
              ret |-> Trapped(MemoryOutOfBounds(offset, size, AsU32(mem.data.len)))]
        ELSE [mem |-> [mem EXCEPT !.data = FillRange(mem.data, start, end, value)],
              ret |-> Returned(<<>>)]

\* <[u8]>::copy_within(src..end, dst): memmove
SliceCopyWithin(buf, src, end, dst) ==
    LET dst_end == WShift(end, src, dst)
        kept    == {o \in DOMAIN buf.nz : ~InRange(o, dst, dst_end)}
        moved   == {WShift(o, src, dst) : o \in {p \in DOMAIN buf.nz : InRange(p, src, end)}}
    IN  [len |-> buf.len,
         nz  |-> [o \in kept \cup moved |->
                     IF o \in moved THEN buf.nz[WShift(o, dst, src)] ELSE buf.nz[o]]]

\* u32::checked_add(a, b).map_or(true, |end| end > limit)
U32EndsPast(a, b, limit) ==
    LET end == WAdd(a, b)
    IN  end.hi >= PAGE_SIZE \/ WLt(limit, end)

\* AwwasmMemInst::copy_within: [mem, ret]
MemCopyWithin(mem, dst, src, size) ==
    LET mem_size == AsU32(mem.data.len)
    IN  IF U32EndsPast(src, size, mem_size)
        THEN [mem |-> mem, ret |-> Trapped(MemoryOutOfBounds(src, size, mem_size))]
        ELSE IF U32EndsPast(dst, size, mem_size)
        THEN [mem |-> mem, ret |-> Trapped(MemoryOutOfBounds(dst, size, mem_size))]
        ELSE [mem |-> [mem EXCEPT !.data =
                          SliceCopyWithin(mem.data, src, WAdd(src, size), dst)],
              ret |-> Returned(<<>>)]

\* An i32 is an integer of -2^31 .. 2^31 - 1.  An i64 is the pair of its
\* high word (an i32) and its low word (the i32 with the same 32 bits).  An
\* f32 or f64 is its bit pattern (to_bits), held as an i32 or an i64.
I64(w1, w0) == [w1 |-> w1, w0 |-> w0]

\* i32::to_be_bytes: the high byte first
I32ToBeBytes(v) ==
    <<(v \div (256 * PAGE_SIZE)) % 256, (v \div PAGE_SIZE) % 256,
      (v \div 256) % 256, v % 256>>

\* i32::to_le_bytes: the low byte first; \div rounds down, so the bytes of a
\* negative value are those of its two's complement
I32ToLeBytes(v) ==
    <<v % 256, (v \div 256) % 256, (v \div PAGE_SIZE) % 256,
      (v \div (256 * PAGE_SIZE)) % 256>>

\* i32::from_le_bytes
I32FromLeBytes(b) ==
    b[1] + 256 * b[2] + PAGE_SIZE * b[3]
    + 256 * PAGE_SIZE * (IF b[4] >= 128 THEN b[4] - 256 ELSE b[4])

\* i64::to_le_bytes
I64ToLeBytes(v) == I32ToLeBytes(v.w0) \o I32ToLeBytes(v.w1)

\* i64::from_le_bytes
I64FromLeBytes(b) ==
    I64(I32FromLeBytes(SubSeq(b, 5, 8)), I32FromLeBytes(SubSeq(b, 1, 4)))

\* the bytes read(offset, width)? hands to T::from_le_bytes
ReadBytes(mem, offset, width) ==
    LET r == MemRead(mem, offset, Wide(0, width))
    IN  IF r.ok THEN Returned(Slice(mem.data, offset, width)) ELSE r

\* the Store's one memory is replaced by r.mem and the call is recorded; a
\* writing call counts against MaxWrites
Wrote(r, call) ==
    /\ last.calls < MaxWrites
    /\ mems' = [mems EXCEPT ![1] = r.mem]
    /\ last' = call @@ [ret |-> r.ret, calls |-> last.calls + 1]
    /\ UNCHANGED <<funcs, tables, globals, elems, datas, modules, entries, module>>

\* a reading call leaves the Store as it is
Got(ret, call) ==
    /\ last' = call @@ [ret |-> ret, calls |-> last.calls]
    /\ UNCHANGED <<storeVars, entries, module>>

mem_read(offset, size) ==
    Got(MemRead(mems[1], offset, size), [op |-> "read", offset |-> offset, size |-> size])

mem_write(offset, bytes) ==
    Wrote(MemWrite(mems[1], offset, bytes),
          [op |-> "write", offset |-> offset, bytes |-> bytes])

mem_fill(offset, value, size) ==
    Wrote(MemFill(mems[1], offset, value, size),
          [op |-> "fill", offset |-> offset, value |-> value, size |-> size])

mem_copy_within(dst, src, size) ==
    Wrote(MemCopyWithin(mems[1], dst, src, size),
          [op |-> "copy_within", dst |-> dst, src |-> src, size |-> size])

read_i32(offset) ==
    LET r == ReadBytes(mems[1], offset, 4)
    IN  Got(IF r.ok THEN Returned(I32FromLeBytes(Unwrap(r.value))) ELSE r,
            [op |-> "read_i32", offset |-> offset])

write_i32(offset, value) ==
    Wrote(MemWrite(mems[1], offset, I32ToLeBytes(value)),
          [op |-> "write_i32", offset |-> offset, value |-> value])

read_i64(offset) ==
    LET r == ReadBytes(mems[1], offset, 8)
    IN  Got(IF r.ok THEN Returned(I64FromLeBytes(Unwrap(r.value))) ELSE r,
            [op |-> "read_i64", offset |-> offset])

write_i64(offset, value) ==
    Wrote(MemWrite(mems[1], offset, I64ToLeBytes(value)),
          [op |-> "write_i64", offset |-> offset, value |-> value])

\* f32::from_le_bytes is from_bits of the integer read
read_f32(offset) ==
    LET r == ReadBytes(mems[1], offset, 4)
    IN  Got(IF r.ok THEN Returned(I32FromLeBytes(Unwrap(r.value))) ELSE r,
            [op |-> "read_f32", offset |-> offset])

\* f32::to_le_bytes gives the bytes of to_bits()
write_f32(offset, value) ==
    Wrote(MemWrite(mems[1], offset, I32ToLeBytes(value)),
          [op |-> "write_f32", offset |-> offset, value |-> value])

\* f64::from_le_bytes is from_bits of the integer read
read_f64(offset) ==
    LET r == ReadBytes(mems[1], offset, 8)
    IN  Got(IF r.ok THEN Returned(I64FromLeBytes(Unwrap(r.value))) ELSE r,
            [op |-> "read_f64", offset |-> offset])

\* f64::to_le_bytes gives the bytes of to_bits()
write_f64(offset, value) ==
    Wrote(MemWrite(mems[1], offset, I64ToLeBytes(value)),
          [op |-> "write_f64", offset |-> offset, value |-> value])

\* the memories accessed: none, one and 65,536 pages, fresh from new or
\* holding 1..5 in their first bytes and 6, 7 in their last two
AccessMems ==
    LET fresh(pages) == MemNew(MemoryType(pages, None))
        filled(pages) ==
            MemWrite(MemWrite(fresh(pages), Wide(0, 0), <<1, 2, 3, 4, 5>>).mem,
                     Wide(pages - 1, PAGE_SIZE - 2), <<6, 7>>).mem
    IN  {fresh(0), fresh(1), filled(1), filled(PAGE_SIZE)}

\* (offset, size) of the reads: offsets at both ends of the first page and
\* of the u32 range, sizes 0, 1 and u32::MAX, a whole page, four bytes that
\* end with the first page or one byte later, and the whole of a 65,536-page
\* memory but its first byte
ReadArgs ==
    ({Wide(0, 0), Wide(0, PAGE_SIZE - 1), Wide(1, 0), U32Max}
     \X {Wide(0, 0), Wide(0, 1), U32Max})
    \cup {<<Wide(0, 0), Wide(1, 0)>>, <<Wide(0, 1), U32Max>>,
          <<Wide(0, PAGE_SIZE - 4), Wide(0, 4)>>, <<Wide(0, PAGE_SIZE - 3), Wide(0, 4)>>}

\* (offset, bytes) of the writes
WriteArgs ==
    {Wide(0, 0), Wide(0, PAGE_SIZE - 2), Wide(0, PAGE_SIZE - 1),
     Wide(1, 0), Wide(PAGE_SIZE - 1, PAGE_SIZE - 2), U32Max}
    \X {<<>>, <<8, 9>>}

\* (offset, value, size) of the fills; the long ones fill with zero
FillArgs ==
    ({Wide(0, 0), Wide(0, 3), Wide(0, PAGE_SIZE - 1), U32Max}
     \X {0, 9} \X {Wide(0, 0), Wide(0, 2)})
    \cup {<<Wide(0, 0), 0, Wide(1, 0)>>, <<Wide(0, 0), 0, U32Max>>}

\* (dst, src, size) of the copies: disjoint ranges, overlapping ones in both
\* directions, ranges at the end of the first page and of the u32 range
CopyArgs ==
    ({Wide(0, 0), Wide(0, 1), Wide(0, PAGE_SIZE - 2)}
     \X {Wide(0, 0), Wide(0, 2), Wide(0, PAGE_SIZE - 2)}
     \X {Wide(0, 0), Wide(0, 2), Wide(0, 3)})
    \cup {<<Wide(0, 0), Wide(0, 0), Wide(1, 0)>>,
          <<Wide(0, 1), Wide(0, 0), Wide(0, PAGE_SIZE - 1)>>,
          <<Wide(0, 0), Wide(0, 1), Wide(0, PAGE_SIZE - 1)>>,
          <<Wide(0, 0), Wide(0, 0), U32Max>>,
          <<U32Max, Wide(0, 0), Wide(0, 1)>>,
          <<Wide(0, 0), U32Max, Wide(0, 2)>>}

\* offsets of the 4-byte and the 8-byte accesses: the first bytes, the last
\* place that fits a page or the u32 range, and one byte further
Offsets4 ==
    {Wide(0, 1), Wide(0, PAGE_SIZE - 4), Wide(0, PAGE_SIZE - 3),
     Wide(PAGE_SIZE - 1, PAGE_SIZE - 4), Wide(PAGE_SIZE - 1, PAGE_SIZE - 3)}

Offsets8 ==
    {Wide(0, 0), Wide(0, PAGE_SIZE - 8), Wide(0, PAGE_SIZE - 7),
     Wide(PAGE_SIZE - 1, PAGE_SIZE - 8)}

\* 0x01020304, -2, i32::MIN and 128
I32Values == {16909060, -2, -2147483647 - 1, 128}

\* 0x0102030405060708, -2 and 2^31
I64Values == {I64(16909060, 84281096), I64(-1, -2), I64(0, -2147483647 - 1)}

\* the bits of 1.0, of a NaN with a payload and of -0.0
F32Values == {1065353216, 2143289345, -2147483647 - 1}

F64Values == {I64(1072693248, 0), I64(2146959360, 1), I64(-2147483647 - 1, 0)}

\* a Store holding one memory
InitAccess ==
    /\ funcs = <<>> /\ tables = <<>> /\ globals = <<>>
    /\ elems = <<>> /\ datas = <<>> /\ modules = <<>>
    /\ \E mem \in AccessMems : mems = <<mem>>
    /\ entries = <<>>
    /\ module = EmptyModule
    /\ last = [op |-> "new", ret |-> Returned(<<>>), calls |-> 0]

NextAccess ==
    \/ \E a \in ReadArgs : mem_read(a[1], a[2])
    \/ \E a \in WriteArgs : mem_write(a[1], a[2])
    \/ \E a \in FillArgs : mem_fill(a[1], a[2], a[3])
    \/ \E a \in CopyArgs : mem_copy_within(a[1], a[2], a[3])
    \/ \E offset \in Offsets4 : read_i32(offset)
    \/ \E offset \in Offsets4, value \in I32Values : write_i32(offset, value)
    \/ \E offset \in Offsets8 : read_i64(offset)
    \/ \E offset \in Offsets8, value \in I64Values : write_i64(offset, value)
    \/ \E offset \in {Wide(0, 0), Wide(0, PAGE_SIZE - 3)} : read_f32(offset)
    \/ \E offset \in {Wide(0, 0), Wide(0, PAGE_SIZE - 3)}, value \in F32Values :
           write_f32(offset, value)
    \/ \E offset \in {Wide(0, 0), Wide(0, PAGE_SIZE - 7)} : read_f64(offset)
    \/ \E offset \in {Wide(0, 0), Wide(0, PAGE_SIZE - 7)}, value \in F64Values :
           write_f64(offset, value)

SpecAccess == InitAccess /\ [][NextAccess]_vars

\* offset + size of the call just made, unwrapped
EndOfAccess == WAdd(last'.offset, last'.size)

IsMemoryOutOfBounds(ret) ==
    /\ ~ret.ok
    /\ Unwrap(ret.trap).tag = "MemoryOutOfBounds"

\* C23 as stated: on a memory of buffer length L, read(offset, size)
\* succeeds for every offset + size <= L, and traps with MemoryOutOfBounds
\* for every offset + size > L or offset + size overflowing u32
C23_Original_Step ==
    last'.op = "read" =>
        /\ WLe(EndOfAccess, mems[1].data.len) => last'.ret.ok
        /\ (WLt(mems[1].data.len, EndOfAccess) \/ EndOfAccess.hi >= PAGE_SIZE)
               => IsMemoryOutOfBounds(last'.ret)

C23_Original == [][C23_Original_Step]_vars

\* C23, amended: read(offset, size) succeeds exactly when offset + size,
\* taken without wrapping, is at most the buffer length L, and traps with
\* MemoryOutOfBounds otherwise; a sum that overflows u32 traps unless it is
\* 2^32 = L, the end of a 65,536-page memory
C23_Step ==
    last'.op = "read" =>
        /\ last'.ret.ok <=> WLe(EndOfAccess, mems[1].data.len)
        /\ ~last'.ret.ok => IsMemoryOutOfBounds(last'.ret)
        /\ EndOfAccess.hi >= PAGE_SIZE /\ EndOfAccess # Wide(PAGE_SIZE, 0)
               => IsMemoryOutOfBounds(last'.ret)

C23_ReadBounds == [][C23_Step]_vars

\* a zero-size read at the very end of a one-page memory succeeded
C23_Witness ==
    /\ last.op = "read"
    /\ last.offset = Wide(1, 0)
    /\ last.offset = mems[1].data.len
    /\ last.size = Wide(0, 0)
    /\ last.ret.ok

\* the trap of the call just made
TrapOf == Unwrap(last'.ret.trap)

\* C24 as stated: whenever read, write, fill or copy_within traps, the
\* MemoryOutOfBounds trap carries the offset and size of the failing access
\* and a memory_size equal to the buffer length in bytes, for every memory
\* size up to 65,536 pages
C24_Original_Step ==
    LET len == mems[1].data.len
    IN  ~last'.ret.ok =>
            /\ last'.op \in {"read", "fill"} =>
                   TrapOf = MemoryOutOfBounds(last'.offset, last'.size, len)
            /\ last'.op = "write" =>
                   TrapOf = MemoryOutOfBounds(last'.offset, Wide(0, Len(last'.bytes)), len)
            /\ last'.op = "copy_within" =>
                   \E o \in {last'.src, last'.dst} :
                       /\ WLt(len, WAdd(o, last'.size))
                       /\ TrapOf = MemoryOutOfBounds(o, last'.size, len)

C24_Original == [][C24_Original_Step]_vars

\* the typed writes and the read of the same type
Writes4 == {"write_i32", "write_f32"}

Writes8 == {"write_i64", "write_f64"}

ReadFor(op) ==
    CASE op = "write_i32" -> "read_i32"
      [] op = "write_i64" -> "read_i64"
      [] op = "write_f32" -> "read_f32"
      [] op = "write_f64" -> "read_f64"

\* the written range is in bounds, the write succeeded, the byte at the
\* lowest address is the least significant one and the byte at the highest
\* address the most significant one, and nothing else changed
WroteLittleEndian(width, low, high) ==
    LET before == mems[1].data
        after  == mems'[1].data
        offset == last'.offset
        end    == WAdd(offset, Wide(0, width))
    IN  IF WLt(before.len, end) THEN ~last'.ret.ok /\ after = before
        ELSE /\ last'.ret.ok
             /\ ByteAt(after, offset) = low % 256
             /\ ByteAt(after, WAdd(offset, Wide(0, width - 1)))
                    = (high \div (256 * PAGE_SIZE)) % 256
             /\ after.len = before.len
             /\ \A o \in (DOMAIN before.nz) \cup (DOMAIN after.nz) :
                    ~InRange(o, offset, end) => ByteAt(after, o) = ByteAt(before, o)

\* C25: for every in-bounds offset and every value v of type i32, i64, f32
\* or f64 (floats as bit patterns), write_T(offset, v) followed by
\* read_T(offset) returns v, the byte at the lowest address being the least
\* significant byte of v, and the bytes outside [offset, offset + width) are
\* unchanged
C25_Step ==
    /\ last'.op \in Writes4 => WroteLittleEndian(4, last'.value, last'.value)
    /\ last'.op \in Writes8 => WroteLittleEndian(8, last'.value.w0, last'.value.w1)
    /\ (/\ last.op \in Writes4 \cup Writes8
        /\ last.ret.ok
        /\ last'.op = ReadFor(last.op)
        /\ last'.offset = last.offset)
           => last'.ret = Returned(last.value)

C25_LittleEndianRoundTrip == [][C25_Step]_vars

\* read_i64 gave back 0x0102030405060708, which only a write_i64 put there
C25_Witness ==
    /\ last.op = "read_i64"
    /\ last.ret = Returned(I64(16909060, 84281096))

\* C26 as stated: copy_within(dst, src, size) with both ranges in bounds
\* behaves as memmove: afterwards the bytes at [dst, dst + size) equal the
\* bytes that were at [src, src + size) before the call, whether the ranges
\* overlap or not, and every byte outside [dst, dst + size) is unchanged
C26_Original_Step ==
    LET before  == mems[1].data
        after   == mems'[1].data
        dst     == last'.dst
        src     == last'.src
        src_end == WAdd(src, last'.size)
        dst_end == WAdd(dst, last'.size)
    IN  (/\ last'.op = "copy_within"
         /\ WLe(src_end, before.len)
         /\ WLe(dst_end, before.len))
        => /\ after.len = before.len
           /\ \A o \in (DOMAIN before.nz) \cup (DOMAIN after.nz) :
                  ByteAt(after, o) = IF InRange(o, dst, dst_end)
                                     THEN ByteAt(before, WShift(o, dst, src))
                                     ELSE ByteAt(before, o)
           /\ \A p \in DOMAIN before.nz :
                  InRange(p, src, src_end)
                      => ByteAt(after, WShift(p, src, dst)) = before.nz[p]

C26_Original == [][C26_Original_Step]_vars

-----------------------------------------------------------------------------
(* A table instance and its operations (table.rs).  An index, a delta or a *)
(* count is a u32 given as a pair [hi, lo]; the size of a table is a       *)
(* number.                                                                 *)

\* AwwasmTrap::TableOutOfBounds
TableOutOfBounds(index, table_size) ==
    [tag |-> "TableOutOfBounds", index |-> index, table_size |-> table_size]

\* an arithmetic overflow caught by a build with overflow checks: the call
\* does not return
Panicked == [ok |-> FALSE, value |-> None, trap |-> None]

\* a u32 that is known to be at most a table size, as a number
Small(w) == w.hi * PAGE_SIZE + w.lo

\* AwwasmTableInst::size: elem.len() as u32
TableSize(table) == Wide(0, Len(table.elem))

\* AwwasmTableInst::get
TableGet(table, index) ==
    IF WLe(TableSize(table), index)
    THEN Trapped(TableOutOfBounds(index, TableSize(table)))
    ELSE Returned(table.elem[Small(index) + 1])

\* AwwasmTableInst::set: [table, ret]
TableSet(table, index, value) ==
    IF WLe(TableSize(table), index)
    THEN [table |-> table, ret |-> Trapped(TableOutOfBounds(index, TableSize(table)))]
    ELSE [table |-> [table EXCEPT !.elem[Small(index) + 1] = value],
          ret   |-> Returned(<<>>)]

\* Vec::resize(new_size, init)
ResizeWith(elem, new_size, init) ==
    [i \in 1..new_size |-> IF i <= Len(elem) THEN elem[i] ELSE init]

\* the two None exits of AwwasmTableInst::grow: checked_add overflows, or
\* new_size > max
GrowRefused(table, delta) ==
    LET new_size == WAdd(TableSize(table), delta)
    IN  \/ new_size.hi >= PAGE_SIZE
        \/ IsSome(table.type_.max) /\ WLt(Wide(0, Unwrap(table.type_.max)), new_size)

\* a grow that fills the new slots with null whatever init is
TableGrowNull(table, delta, init) ==
    LET old_size == TableSize(table)
        new_size == WAdd(old_size, delta)
    IN  IF GrowRefused(table, delta)
        THEN [table |-> table, ret |-> None]
        ELSE [table |-> [table EXCEPT !.elem = ResizeWith(@, Small(new_size), None)],
              ret   |-> Some(Small(old_size))]

\* AwwasmTableInst::grow: [table, ret: Option<old_size>]
TableGrow(table, delta, init) ==
    LET old_size == TableSize(table)
        new_size == WAdd(old_size, delta)
    IN  IF GrowRefused(table, delta)
        THEN [table |-> table, ret |-> None]
        ELSE [table |-> [table EXCEPT !.elem = ResizeWith(@, Small(new_size), init)],
              ret   |-> Some(Small(old_size))]

\* AwwasmTableInst::fill: the outcomes [table, ret] the builds can produce.
\* The index of the second trap is offset + count - 1 in u32 arithmetic:
\* when offset + count passes u32::MAX a build with overflow checks panics
\* and one without wraps.
TableFill(table, offset, value, count) ==
    LET start == offset
        end   == WAdd(start, count)
        size  == TableSize(table)
        index == AsU32(WShift(end, Wide(0, 1), Wide(0, 0)))
        trap  == [table |-> table, ret |-> Trapped(TableOutOfBounds(index, size))]
    IN  IF WLt(size, end)
        THEN IF end.hi >= PAGE_SIZE
             THEN {trap, [table |-> table, ret |-> Panicked]}
             ELSE {trap}
        ELSE {[table |-> [table EXCEPT !.elem =
                             [i \in 1..Len(@) |->
                                 IF Small(start) < i /\ i <= Small(end) THEN value ELSE @[i]]],
               ret   |-> Returned(<<>>)]}

\* a copy made slot by slot from the low end, with no clone of the source
CopyForward(elem, src, dst, count) ==
    LET step[k \in 0..count] ==
            IF k = 0 THEN elem
            ELSE [step[k - 1] EXCEPT ![dst + k] = step[k - 1][src + k]]
    IN  step[count]

\* elem[dst..dst + count].copy_from_slice(&elem[src..src + count].to_vec())
CopyCloned(elem, src, dst, count) ==
    LET src_data == SubSeq(elem, src + 1, src + count)
    IN  [i \in 1..Len(elem) |->
            IF dst < i /\ i <= dst + count THEN src_data[i - dst] ELSE elem[i]]

\* <[T]>::copy_within(src..src + count, dst): a memmove
CopyMoved(elem, src, dst, count) ==
    [i \in 1..Len(elem) |->
        IF dst < i /\ i <= dst + count THEN elem[i - dst + src] ELSE elem[i]]

\* (src..src + count).contains(&dst) || (dst..dst + count).contains(&src)
Overlap(src, dst, count) ==
    (src <= dst /\ dst < src + count) \/ (dst <= src /\ src < dst + count)

\* a copy_within that copies slot by slot whether the ranges overlap or not
TableCopyNoClone(table, dst, src, count) ==
    LET table_size == TableSize(table)
    IN  IF U32EndsPast(src, count, table_size)
        THEN [table |-> table, ret |-> Trapped(TableOutOfBounds(src, table_size))]
        ELSE IF U32EndsPast(dst, count, table_size)
        THEN [table |-> table, ret |-> Trapped(TableOutOfBounds(dst, table_size))]
        ELSE [table |-> [table EXCEPT !.elem =
                            CopyForward(@, Small(src), Small(dst), Small(count))],
              ret   |-> Returned(<<>>)]

\* AwwasmTableInst::copy_within: [table, ret]
TableCopyWithin(table, dst, src, count) ==
    LET table_size == TableSize(table)
    IN  IF U32EndsPast(src, count, table_size)
        THEN [table |-> table, ret |-> Trapped(TableOutOfBounds(src, table_size))]
        ELSE IF U32EndsPast(dst, count, table_size)
        THEN [table |-> table, ret |-> Trapped(TableOutOfBounds(dst, table_size))]
        ELSE [table |-> [table EXCEPT !.elem =
                            IF Overlap(Small(src), Small(dst), Small(count))
                            THEN CopyCloned(@, Small(src), Small(dst), Small(count))
                            ELSE CopyMoved(@, Small(src), Small(dst), Small(count))],
              ret   |-> Returned(<<>>)]

\* the call is recorded and the Store's one table replaced by r.table
TableCall(r, call) ==
    /\ tables' = [tables EXCEPT ![1] = r.table]
    /\ last' = call @@ [ret |-> r.ret]
    /\ UNCHANGED <<funcs, mems, globals, elems, datas, modules, entries, module>>

table_get(index) ==
    TableCall([table |-> tables[1], ret |-> TableGet(tables[1], index)],
              [op |-> "get", index |-> index])

table_set(index, value) ==
    TableCall(TableSet(tables[1], index, value),
              [op |-> "set", index |-> index, value |-> value])

\* a grow is followed as long as the table it leaves has at most MaxSlots
\* slots
table_grow(delta, init) ==
    /\ \/ GrowRefused(tables[1], delta)
       \/ WLe(WAdd(TableSize(tables[1]), delta), Wide(0, MaxSlots))
    /\ TableCall(TableGrow(tables[1], delta, init),
                 [op |-> "grow", delta |-> delta, init |-> init])

table_fill(offset, value, count) ==
    \E r \in TableFill(tables[1], offset, value, count) :
        TableCall(r, [op |-> "fill", offset |-> offset, value |-> value, count |-> count])

table_copy_within(dst, src, count) ==
    TableCall(TableCopyWithin(tables[1], dst, src, count),
              [op |-> "copy_within", dst |-> dst, src |-> src, count |-> count])

\* the table types: min 0 or 2, max absent, below min, or above it
TableTypes ==
    {TableTypeFuncref(min, max) : min \in {0, 2}, max \in {None, Some(1), Some(3)}}

\* the references stored: null and two function addresses
TableValues == {None, Some(0), Some(1)}

\* the u32 indices, offsets, deltas and counts
TableIndices == {Wide(0, 0), Wide(0, 1), Wide(0, 2), U32Max}

\* a Store holding one table made by AwwasmTableInst::new
InitTable ==
    /\ funcs = <<>> /\ mems = <<>> /\ globals = <<>>
    /\ elems = <<>> /\ datas = <<>> /\ modules = <<>>
    /\ \E t \in TableTypes : tables = <<TableNew(t)>>
    /\ entries = <<>>
    /\ module = EmptyModule
    /\ last = [op |-> "new", ret |-> Returned(<<>>)]

NextTable ==
    \/ \E index \in TableIndices : table_get(index)
    \/ \E index \in TableIndices, value \in TableValues : table_set(index, value)
    \/ \E delta \in TableIndices, init \in TableValues : table_grow(delta, init)
    \/ \E offset \in TableIndices, value \in TableValues, count \in TableIndices :
           table_fill(offset, value, count)
    \/ \E dst \in TableIndices, src \in TableIndices, count \in TableIndices :
           table_copy_within(dst, src, count)

SpecTable == InitTable /\ [][NextTable]_vars

\* C27: table grow(delta, init) returns None exactly when size + delta
\* overflows u32 or exceeds max when max is set, and then leaves the table
\* unchanged; otherwise it returns the old size, the new size is
\* old + delta, every slot in [old, old + delta) equals init and every slot
\* below old is unchanged
C27_Step ==
    LET old      == Len(tables[1].elem)
        max      == tables[1].type_.max
        delta    == last'.delta
        overflow == delta.hi = PAGE_SIZE - 1 /\ delta.lo + old >= PAGE_SIZE
        over_max == IsSome(max) /\ (delta.hi > 0 \/ old + delta.lo > Unwrap(max))
        after    == tables'[1].elem
    IN  last'.op = "grow" =>
            IF overflow \/ over_max
            THEN last'.ret = None /\ tables' = tables
            ELSE /\ last'.ret = Some(old)
                 /\ Len(after) = old + delta.lo
                 /\ \A i \in 1..Len(after) :
                        after[i] = IF i <= old THEN tables[1].elem[i] ELSE last'.init
                 /\ tables'[1].type_ = tables[1].type_

C27_TableGrow == [][C27_Step]_vars

\* a one-slot table grown by two slots holding a function address
C27_Witness ==
    /\ last.op = "grow"
    /\ last.delta = Wide(0, 2)
    /\ last.init = Some(1)
    /\ last.ret = Some(1)
    /\ Len(tables[1].elem) = 3

\* C28 as stated: a table made by new(type) has exactly min slots, all
\* null; after any sequence of get, set, grow, fill and copy_within calls
\* size() is the number of slots, at least min, and at most max when max is
\* set; get(i) and set(i, v) trap with TableOutOfBounds{index: i,
\* table_size: size} exactly when i >= size
C28_Original ==
    LET table == tables[1]
        size  == TableSize(table)
    IN  /\ last.op = "new" =>
               table.elem = [i \in 1..table.type_.min |-> None]
        /\ size = Wide(0, Len(table.elem))
        /\ Len(table.elem) >= table.type_.min
        /\ IsSome(table.type_.max) => Len(table.elem) <= Unwrap(table.type_.max)
        /\ last.op \in {"get", "set"} =>
               IF WLe(size, last.index)
               THEN last.ret = Trapped(TableOutOfBounds(last.index, size))
               ELSE last.ret.ok

\* C29: table copy_within(dst, src, count) with both ranges in bounds
\* preserves the source values under overlap: afterwards slot dst + i holds
\* what slot src + i held before the call for every i < count, whatever the
\* relative position of the two ranges, and the slots outside
\* [dst, dst + count) are unchanged
C29_Step ==
    LET before == tables[1].elem
        after  == tables'[1].elem
        size   == TableSize(tables[1])
        dst    == last'.dst
        src    == last'.src
        count  == last'.count
    IN  (/\ last'.op = "copy_within"
         /\ WLe(WAdd(src, count), size)
         /\ WLe(WAdd(dst, count), size))
        => /\ last'.ret.ok
           /\ Len(after) = Len(before)
           /\ \A i \in 0..(count.lo - 1) : after[dst.lo + i + 1] = before[src.lo + i + 1]
           /\ \A j \in 1..Len(before) :
                  (j <= dst.lo \/ j > dst.lo + count.lo) => after[j] = before[j]

C29_TableCopyWithin == [][C29_Step]_vars

\* slots 0..1 copied onto slots 1..2, which overlap them: the table
\* [f0, f1, _] became [f0, f0, f1]
C29_Witness ==
    /\ last.op = "copy_within"
    /\ last.ret.ok
    /\ last.dst = Wide(0, 1) /\ last.src = Wide(0, 0) /\ last.count = Wide(0, 2)
    /\ tables[1].elem = <<Some(0), Some(0), Some(1)>>

-----------------------------------------------------------------------------
(* A global instance and its operations (global.rs) *)

\* AwwasmValue::I64 and AwwasmValue::F32 (the float as its bits)
ValueI64(v) == [tag |-> "I64", v |-> v]

ValueF32(bits) == [tag |-> "F32", v |-> bits]

\* AwwasmValue::value_type
ValueTypeOf(value) == value.tag

\* Result<(), ()>
UnitOk == [ok |-> TRUE]

UnitErr == [ok |-> FALSE]

\* AwwasmGlobalInst::get
GlobalGet(global) == global.value

\* a set that writes whatever the mutability
GlobalSetAlways(global, value) ==
    [global |-> [global EXCEPT !.value = value], ret |-> UnitOk]

\* AwwasmGlobalInst::set: [global, ret]
GlobalSet(global, value) ==
    IF ~global.type_.mutable
    THEN [global |-> global, ret |-> UnitErr]
    ELSE [global |-> [global EXCEPT !.value = value], ret |-> UnitOk]

global_get ==
    /\ last' = [op |-> "get", ret |-> GlobalGet(globals[1])]
    /\ UNCHANGED <<storeVars, entries, module>>

global_set(value) ==
    LET r == GlobalSet(globals[1], value)
    IN  /\ globals' = [globals EXCEPT ![1] = r.global]
        /\ last' = [op |-> "set", value |-> value, ret |-> r.ret]
        /\ UNCHANGED <<funcs, tables, mems, elems, datas, modules, entries, module>>

\* the values written: four i32, three i64 and the bits of 1.0 and of a NaN
GlobalValues ==
    {I32(0), I32(100), I32(200), I32(-1), ValueI64(0), ValueI64(42), ValueI64(-7),
     ValueF32(1065353216), ValueF32(2143289345)}

\* a Store holding one global, mutable or not, made by AwwasmGlobalInst::new
\* with a value of its declared type
InitGlobal ==
    /\ funcs = <<>> /\ tables = <<>> /\ mems = <<>>
    /\ elems = <<>> /\ datas = <<>> /\ modules = <<>>
    /\ \E mutable \in BOOLEAN, value \in GlobalValues :
           globals = <<GlobalNew(GlobalType(mutable, ValueTypeOf(value)), value)>>
    /\ entries = <<>>
    /\ module = EmptyModule
    /\ last = [op |-> "new", ret |-> UnitOk]

NextGlobal ==
    \/ global_get
    \/ \E value \in GlobalValues : global_set(value)

SpecGlobal == InitGlobal /\ [][NextGlobal]_vars

\* C30: any write to an immutable global returns the error and leaves the
\* value unchanged: for a global whose type is immutable every set(v)
\* returns an error, no call changes the global, and get() returns the value
\* it has had since its creation
C30_Step ==
    ~globals[1].type_.mutable =>
        /\ globals' = globals
        /\ last'.op = "set" => last'.ret = UnitErr
        /\ last'.op = "get" => last'.ret = globals[1].value

C30_ImmutableGlobal == [][C30_Step]_vars

\* a set of another value on an immutable global was refused
C30_Witness ==
    /\ last.op = "set"
    /\ ~globals[1].type_.mutable
    /\ last.value # globals[1].value
    /\ last.ret = UnitErr

\* C31 as stated: a global's current value always has its declared value
\* type: for a global created with a value of the declared type, after any
\* sequence of set calls value.value_type() equals the declared value_type;
\* a set whose value has another type fails and leaves the value unchanged,
\* and a successful set makes get() return the written value
C31_Original ==
    /\ ValueTypeOf(globals[1].value) = globals[1].type_.value_type
    /\ last.op = "set" =>
           IF ValueTypeOf(last.value) # globals[1].type_.value_type
           THEN last.ret = UnitErr
           ELSE last.ret = UnitOk => GlobalGet(globals[1]) = last.value

-----------------------------------------------------------------------------
(* Data and element instances and their drop (func.rs) *)

\* a drop_data that flips the flag
DropDataToggle(data) == [data EXCEPT !.dropped = ~@]

\* AwwasmDataInst::drop_data
DropData(data) == [data EXCEPT !.dropped = TRUE]

\* AwwasmDataInst::bytes
DataBytes(data) == IF data.dropped THEN None ELSE Some(data.data)

\* AwwasmElemInst::drop_elem
DropElem(elem) == [elem EXCEPT !.elem = <<>>, !.dropped = TRUE]

drop_data ==
    /\ datas' = [datas EXCEPT ![1] = DropData(@)]
    /\ last' = [op |-> "drop_data"]
    /\ UNCHANGED <<funcs, tables, mems, globals, elems, modules, entries, module>>

bytes ==
    /\ last' = [op |-> "bytes", ret |-> DataBytes(datas[1])]
    /\ UNCHANGED <<storeVars, entries, module>>

drop_elem ==
    /\ elems' = [elems EXCEPT ![1] = DropElem(@)]
    /\ last' = [op |-> "drop_elem"]
    /\ UNCHANGED <<funcs, tables, mems, globals, datas, modules, entries, module>>

\* a Store holding one data instance and one element instance, fresh from
\* new: segments of no byte to three bytes, reference lists of no entry to
\* two entries
InitDrop ==
    /\ funcs = <<>> /\ tables = <<>> /\ mems = <<>>
    /\ globals = <<>> /\ modules = <<>>
    /\ \E b \in {<<>>, <<0>>, <<255>>, <<104, 105>>, <<1, 2, 3>>} : datas = <<DataNew(b)>>
    /\ \E e \in {<<>>, <<None>>, <<Some(0)>>, <<Some(1), None>>, <<Some(0), Some(1)>>} :
           elems = <<ElemNew("FuncRef", e)>>
    /\ entries = <<>>
    /\ module = EmptyModule
    /\ last = [op |-> "new"]

NextDrop == drop_data \/ bytes \/ drop_elem

SpecDrop == InitDrop /\ [][NextDrop]_vars

\* C32: bytes() returns the segment's bytes until drop_data is called and
\* absent in every state after it; the drop is one-way (no operation clears
\* the flag or touches the bytes) and idempotent; drop_elem empties the
\* reference list and sets dropped, for good
C32_Step ==
    /\ datas'[1].data = datas[1].data
    /\ datas'[1].dropped <=> (datas[1].dropped \/ last'.op = "drop_data")
    /\ last'.op = "bytes" =>
           last'.ret = IF datas[1].dropped THEN None ELSE Some(datas[1].data)
    /\ (last'.op = "drop_data" /\ datas[1].dropped) => datas' = datas
    /\ last'.op = "drop_elem" => elems'[1].elem = <<>> /\ elems'[1].dropped
    /\ last'.op # "drop_elem" => elems' = elems
    /\ elems[1].dropped => elems' = elems

C32_DropIsOneWay == [][C32_Step]_vars

\* bytes() was absent on a segment dropped twice, the element instance
\* being dropped too
C32_Witness ==
    /\ last.op = "bytes"
    /\ last.ret = None
    /\ datas[1].dropped /\ datas[1].data = <<104, 105>>
    /\ elems[1].dropped /\ elems[1].elem = <<>>

-----------------------------------------------------------------------------
(* Looking an export up by name (instance.rs)                              *)

\* a lookup that answers the last entry of the name
ExportLast(mi, name) ==
    LET hits == {i \in 1..Len(mi.exports) : mi.exports[i].name = name}
    IN  IF hits = {} THEN None
        ELSE Some(mi.exports[CHOOSE i \in hits : \A j \in hits : j <= i])

\* AwwasmModuleInst::export: iter().find(|e| e.name == name)
Export(mi, name) ==
    LET hits == {i \in 1..Len(mi.exports) : mi.exports[i].name = name}
    IN  IF hits = {} THEN None
        ELSE Some(mi.exports[CHOOSE i \in hits : \A j \in hits : i <= j])

\* the names looked up: the four the exports carry, one no export carries and
\* one that has an exported name as a proper prefix
LookupNames == {NameF, NameMemory, NameG, NameT, NameSys, NameF \o NameF}

export ==
    /\ \E a \in 1..Len(modules) : \E name \in LookupNames :
          last' = [op |-> "export", addr |-> a - 1, name |-> name,
                   ret |-> Export(modules[a], name)]
    /\ UNCHANGED <<storeVars, entries, module>>

\* the modules looked into: no import, two functions, a memory, a global and
\* MaxExports exports at most
LookupModules ==
    {[imports |-> <<>>, funcs |-> <<0, 0>>, code |-> <<CodeItem, CodeItem>>,
      memories |-> <<MemoryItem>>,
      globals |-> <<GlobalItem>>,
      data |-> <<>>,
      exports |-> ee] : ee \in SeqsUpTo(ExpItems, MaxExports)}

InitLookup ==
    /\ EmptyStore
    /\ entries = <<>>
    /\ module \in LookupModules
    /\ last = NoCall

NextLookup ==
    \/ store_init
    \/ export

SpecLookup == InitLookup /\ [][NextLookup]_vars

\* C33: export(name) answers the first entry, in the order the module
\* declares its exports, whose name is byte for byte the name asked for,
\* and absent when no entry has it; of two exports of one name the one
\* declared first is answered
C33_Step ==
    last'.op = "export" =>
        LET mi == modules[last'.addr + 1]
            named == {i \in 1..Len(module.exports) :
                         module.exports[i].name = last'.name}
        IN  /\ Len(mi.exports) = Len(module.exports)
            /\ named = {} => last'.ret = None
            /\ \A i \in named :
                  (\A j \in named : i <= j) =>
                      /\ last'.ret = Some(mi.exports[i])
                      /\ Unwrap(last'.ret).name = last'.name
                      /\ Unwrap(last'.ret).addr =
                             ExternAddr(VariantName(module.exports[i].kind),
                                        ArrayOf(mi, module.exports[i].kind)
                                            [module.exports[i].index + 1])

C33_FirstExportOfName == [][C33_Step]_vars

\* the second function declared under the name before the first one: the
\* lookup answers the second function
C33_Witness ==
    /\ last.op = "export" /\ last.name = NameF
    /\ Len(module.exports) = 2
    /\ module.exports[1] = ExportItem(NameF, "Function", 1)
    /\ module.exports[2] = ExportItem(NameF, "Function", 0)
    /\ last.ret = Some(ExportInst(NameF, ExternAddr("Func", 1)))

-----------------------------------------------------------------------------
(* Growth of a memory that was read, written and filled (memory.rs) *)

\* the memories: none, one and two pages, no max; one of a page with bytes
\* at both ends, limited to three pages
GrownMems ==
    {MemNew(MemoryType(0, None)), MemNew(MemoryType(1, None)),
     MemNew(MemoryType(2, None)),
     MemWrite(MemWrite(MemNew(MemoryType(1, Some(3))), Wide(0, 0), <<1, 2, 3>>).mem,
              Wide(0, PAGE_SIZE - 2), <<6, 7>>).mem}

InitGrown ==
    /\ funcs = <<>> /\ tables = <<>> /\ globals = <<>>
    /\ elems = <<>> /\ datas = <<>> /\ modules = <<>>
    /\ \E mem \in GrownMems : mems = <<mem>>
    /\ entries = <<>>
    /\ module = EmptyModule
    /\ last = [op |-> "new", ret |-> Returned(<<>>), calls |-> 0]

NextGrown ==
    \/ \E a \in ReadArgs : mem_read(a[1], a[2])
    \/ \E a \in WriteArgs : mem_write(a[1], a[2])
    \/ \E a \in FillArgs : mem_fill(a[1], a[2], a[3])
    \/ \E delta \in {Wide(0, 0), Wide(0, 1), Wide(0, 2)} : mem_grow(delta)

SpecGrown == InitGrown /\ [][NextGrown]_vars

\* C34: a grow that succeeds keeps every byte of the old buffer and makes
\* every byte of the added tail zero, whatever reads, writes and fills came
\* before it; no byte outside the buffer is held, so that a byte never
\* written reads as zero
C34_Step ==
    LET before == mems[1].data
        after  == mems'[1].data
    IN  /\ (last'.op = "grow" /\ last'.ret # None) =>
               /\ WLe(before.len, after.len)
               /\ \A o \in (DOMAIN before.nz) \cup (DOMAIN after.nz) :
                      IF WLt(o, before.len)
                      THEN ByteAt(after, o) = ByteAt(before, o)
                      ELSE ByteAt(after, o) = 0
        /\ last'.op = "read" => after = before
        /\ \A o \in DOMAIN after.nz : WLt(o, after.len) /\ after.nz[o] \in 1..255

C34_GrowKeepsBytes == [][C34_Step]_vars

\* a memory of one page written at its last two bytes, then grown by a page
C34_Witness ==
    /\ last.op = "grow" /\ last.ret = Some(1) /\ last.delta = Wide(0, 1)
    /\ SizePages(mems[1]) = 2
    /\ ByteAt(mems[1].data, Wide(0, PAGE_SIZE - 2)) = 8
    /\ ByteAt(mems[1].data, Wide(0, PAGE_SIZE - 1)) = 9
    /\ ByteAt(mems[1].data, Wide(1, 0)) = 0

-----------------------------------------------------------------------------
(* The bounds of copy_within (memory.rs) *)

\* C35 as stated: copy_within(dst, src, size) succeeds for every
\* (dst, src, size) with src + size <= buffer_len and dst + size <=
\* buffer_len, the sums taken wider than u32, on a memory of any size from 0
\* to 65,536 pages, and traps only when one of the ranges passes buffer_len
C35_Original_Step ==
    LET len     == mems[1].data.len
        src_end == WAdd(last'.src, last'.size)
        dst_end == WAdd(last'.dst, last'.size)
    IN  last'.op = "copy_within" =>
            (last'.ret.ok <=> (WLe(src_end, len) /\ WLe(dst_end, len)))

C35_Original == [][C35_Original_Step]_vars

-----------------------------------------------------------------------------
(* Instantiation with imports that can be told apart (store.rs) *)

\* a function body of one nop
NopCode == [func_body |-> <<0, 1, 11>>]

\* the modules: no import, one, or two under different keys; no function,
\* one, or two with different bodies; a memory or none; an active data
\* segment at 16 of memory 0 or none
OrderModules ==
    {[imports |-> imp, funcs |-> [i \in 1..Len(cc) |-> 0], code |-> cc,
      memories |-> mm,
      globals |-> <<>>,
      data |-> dd,
      exports |-> <<>>] :
        imp \in {<<>>,
                 <<ImportItem(KeyEnvMemory, "Memory")>>,
                 <<ImportItem(KeyEnvF, "Function"), ImportItem(KeyEnvMemory, "Function")>>,
                 <<ImportItem(KeyEnvMemory, "Memory"), ImportItem(KeyEnvF, "Memory")>>,
                 <<ImportItem(KeyEnvF, "Function"), ImportItem(KeyEnvMemory, "Memory")>>},
        cc \in {<<>>, <<CodeItem>>, <<NopCode, CodeItem>>},
        mm \in SeqsUpTo({MemoryItem}, 1),
        dd \in SeqsUpTo({DataItem(0, None, <<65, 16, 11>>, <<104, 105>>)}, 1)}

InitOrder ==
    /\ EmptyStore
    /\ entries = <<>>
    /\ module \in OrderModules
    /\ last = NoCall

\* the embedder adds, under the keys the module imports and one entry an
\* import at most, functions it numbers and memories of no page or one
\* page, and instantiates
NextOrder ==
    \/ /\ Len(entries) < Len(module.imports)
       /\ NextStamp <= MaxStamp
       /\ \E i \in 1..Len(module.imports) :
             LET x == module.imports[i]
             IN  \/ /\ x.kind = "Function"
                    /\ add_func(x.module, x.name, ImportedFunc(NextStamp))
                 \/ /\ x.kind = "Memory"
                    /\ \E pages \in {0, 1} :
                           add_memory(x.module, x.name, ImportedMem(pages))
    \/ store_init

SpecOrder == InitOrder /\ [][NextOrder]_vars

\* the index in the import section of the j-th import of a kind
NthImport(kind, j) ==
    CHOOSE i \in 1..Len(module.imports) :
        /\ module.imports[i].kind = kind
        /\ Cardinality({p \in 1..i : module.imports[p].kind = kind}) = j

\* the entries of the variant of a kind under the key of import i
Supplied(i, kind) ==
    {entries[e].value.inst :
        e \in {x \in Matching(i) : entries[x].value.variant = VariantOf(kind)}}

NoRepeat(addrs) ==
    \A i, j \in 1..Len(addrs) : i # j => addrs[i] # addrs[j]

\* C36: after a successful store_init funcaddrs lists the imported functions
\* in the order the imports are declared, then the functions of the module
\* in the order of the code section, and memaddrs the imported memories and
\* then the declared ones: index i of a kind is the i-th entity of the kind,
\* imports first; no address is twice in one array
C36_Step ==
    StoreInitOk =>
        LET mi == Registered
            fi == CountKind(module.imports, "Function")
            im == CountKind(module.imports, "Memory")
        IN  /\ Len(mi.funcaddrs) = fi + Len(module.code)
            /\ \A j \in 1..fi :
                  funcs'[mi.funcaddrs[j] + 1] \in Supplied(NthImport("Function", j), "Function")
            /\ \A j \in 1..Len(module.code) :
                  funcs'[mi.funcaddrs[fi + j] + 1] =
                      WasmFunc(0, Unwrap(last'.ret.addr), module.code[j].func_body)
            /\ Len(mi.memaddrs) = im + Len(module.memories)
            /\ \A j \in 1..im :
                  mems'[mi.memaddrs[j] + 1].type_ \in
                      {m.type_ : m \in Supplied(NthImport("Memory", j), "Memory")}
            /\ \A j \in 1..Len(module.memories) :
                  mems'[mi.memaddrs[im + j] + 1].type_ =
                      MemoryParamsToType(module.memories[j].limits)
            /\ NoRepeat(mi.funcaddrs) /\ NoRepeat(mi.memaddrs)
            /\ NoRepeat(mi.tableaddrs) /\ NoRepeat(mi.globaladdrs)
            /\ NoRepeat(mi.elemaddrs) /\ NoRepeat(mi.dataaddrs)

C36_ImportsThenDefinitions == [][C36_Step]_vars

\* an imported function before the two functions of the module, an imported
\* memory before the declared one
C36_Witness ==
    /\ last.op = "store_init" /\ last.ret.ok
    /\ Len(module.imports) = 2
    /\ Len(modules) = 1
    /\ modules[1].funcaddrs = <<0, 1, 2>>
    /\ funcs[1] = ImportedFunc(0)
    /\ funcs[2] = WasmFunc(0, 0, NopCode.func_body)
    /\ funcs[3] = WasmFunc(0, 0, CodeItem.func_body)
    /\ modules[1].memaddrs = <<0, 1>>
    /\ mems[1].type_ = MemoryType(1, None)
    /\ mems[2].type_ = MemoryType(1, Some(4))

\* C37 as stated: in every Store state reached by successful and failed
\* store_init calls, every Wasm function whose owner address denotes a
\* registered module is listed in the funcaddrs of that module: a function
\* left behind by a failed instantiation never names a module registered
\* later as its owner
C37_Original ==
    \A f \in 1..Len(funcs) :
        (funcs[f].tag = "Wasm" /\ funcs[f].module < Len(modules))
            => \E j \in 1..Len(modules[funcs[f].module + 1].funcaddrs) :
                   modules[funcs[f].module + 1].funcaddrs[j] = f - 1

-----------------------------------------------------------------------------
(* What store_init leaves alone (store.rs) *)

\* C38: store_init modifies no instance that was in the Store before the
\* call: every memory, global, table, function, element, data and module
\* instance is after the call what it was before it, whether the call
\* succeeds or fails; the memory an active data segment is written to is
\* one the call itself allocated
C38_Step ==
    StoreInitStep =>
        /\ IsPrefix(funcs, funcs') /\ IsPrefix(tables, tables')
        /\ IsPrefix(mems, mems') /\ IsPrefix(globals, globals')
        /\ IsPrefix(elems, elems') /\ IsPrefix(datas, datas')
        /\ IsPrefix(modules, modules')
        /\ last'.ret.ok =>
               \A j \in 1..Len(module.data) :
                   IsActive(j) => /\ TargetOf(j) < Len(Registered.memaddrs)
                                  /\ Registered.memaddrs[TargetOf(j) + 1] >= Len(mems)

C38_StoreInitFrame == [][C38_Step]_vars

\* an instantiation that wrote its data segment to the memory it declares,
\* in a Store that held a memory before: that memory is as it was
C38_Witness ==
    /\ last.op = "store_init" /\ last.ret.ok
    /\ Len(module.data) = 1
    /\ Len(mems) = 2
    /\ mems[1] = DirectMem
    /\ modules[Len(modules)].memaddrs = <<1>>
    /\ DOMAIN mems[2].data.nz # {}

-----------------------------------------------------------------------------
(* The bounds of table fill (table.rs) *)

\* C39 as stated: fill(offset, value, count) sets exactly the slots
\* [offset, offset + count) to value when offset + count <= size; for every
\* other pair of u32 values it returns the trap TableOutOfBounds with
\* table_size the current size, without aborting on an arithmetic overflow,
\* and leaves every slot unchanged
C39_Original_Step ==
    LET before == tables[1].elem
        after  == tables'[1].elem
        size   == TableSize(tables[1])
        end    == WAdd(last'.offset, last'.count)
    IN  last'.op = "fill" =>
            IF WLe(end, size)
            THEN /\ last'.ret.ok
                 /\ Len(after) = Len(before)
                 /\ \A i \in 1..Len(before) :
                        after[i] = IF Small(last'.offset) < i /\ i <= Small(end)
                                   THEN last'.value ELSE before[i]
            ELSE /\ ~last'.ret.ok
                 /\ IsSome(last'.ret.trap)
                 /\ Unwrap(last'.ret.trap).tag = "TableOutOfBounds"
                 /\ Unwrap(last'.ret.trap).table_size = size
                 /\ after = before

C39_Original == [][C39_Original_Step]_vars

====
